---- MODULE Spec2Model ----
(***************************************************************************)
(* A model of the invoice-ingest service: the shared postcode / ledger     *)
(* helpers (app/parse_utils.py), the supplier dispatcher and the inbound   *)
(* endpoint (main.py), the per-supplier extractors (app/parsers/*.py) and  *)
(* the queue-store / ledger clients they call.                             *)
(*                                                                         *)
(* The postcode helpers work on text as a sequence of one-character        *)
(* strings; the dispatcher works on strings.  Money is an integer number   *)
(* of pence.  None stands for Python's None.                               *)
(*                                                                         *)
(* Each part of the program has its own specification over the same        *)
(* variables; the variables of the parts that do not run stay idle.        *)
(***************************************************************************)
EXTENDS Integers, Sequences, FiniteSets, TLC

VARIABLES
    text,        \* postcode helpers: the input string
    pcPhase,     \* "idle" | "input" | "normalized" | "extracted"
    pcOut,       \* the value returned by the helper that ran
    dText,       \* _detect_and_parse: argument text
    dSender,     \* _detect_and_parse: argument sender_email
    dName,       \* _detect_and_parse: argument attachment_name
    dRaise,      \* _detect_and_parse: argument raise_on_unknown
    dPhase,      \* "idle" | "called" | "returned"
    dRes,        \* what the call did: extractors invoked, log records, outcome
    hText,       \* parse_hunts: argument text
    hPhase,      \* "idle" | "called" | "returned"
    hOut,        \* parse_hunts: the list returned
    pParser,     \* the extractor called
    pIn,         \* what the extractor's helpers found in its argument text
    pPhase,      \* "idle" | "called" | "returned"
    pOut,        \* the records the extractor returned, or the exception raised
    FIRESTORE_ENABLED,   \* main.py: whether the queue store is used
    SAGE_ENABLED,        \* main.py: whether invoices are posted to the ledger
    inbound,             \* the /postmark/inbound requests in flight
    processed_messages,  \* queue store: ids of the message documents
    reference_locks,     \* queue store: the reserved invoice references
    sage_queue,          \* queue store: the invoice records
    sage_documents,      \* the accounting ledger: the documents created in it
    sInvoice,    \* sage_client: the record to post
    sEnv,        \* sage_client: the configuration and what the ledger answers
    sPhase,      \* "idle" | "called" | "returned"
    sOut,        \* sage_client: the payload sent and what the call returned
    now,         \* the system clock: datetime.now() truncated to the day
    calls,       \* the extractor calls made so far: extractor, text, output
    tables,      \* the module-level tables, LEDGER_MAP among them
    mText,       \* parse_money: argument value, a sequence of characters
    mPhase,      \* "idle" | "called" | "returned"
    mOut,        \* parse_money: the value returned
    aLines,      \* hunts _extract_vat_analysis: the numbered rate lines
    aPhase,      \* "idle" | "called" | "returned"
    aOut,        \* hunts _extract_vat_analysis: the sums of the rate lines
    RATE_LIMIT_PER_DAY,  \* main.py: the environment variable, a string
    utcnow,      \* the system clock: datetime.utcnow() truncated to the day
    rate_limits, \* queue store: the count of each rate-limit document
    rCalls       \* the calls of _enforce_rate_limit in flight

pcVars == <<text, pcPhase, pcOut>>
dVars == <<dText, dSender, dName, dRaise, dPhase, dRes>>

hVars == <<hText, hPhase, hOut>>
pVars == <<pParser, pIn, pPhase, pOut>>
iVars == <<FIRESTORE_ENABLED, SAGE_ENABLED, inbound, processed_messages,
           reference_locks, sage_queue, sage_documents>>
sVars == <<sInvoice, sEnv, sPhase, sOut>>
cVars == <<now, calls, tables>>
mVars == <<mText, mPhase, mOut>>
aVars == <<aLines, aPhase, aOut>>
rVars == <<RATE_LIMIT_PER_DAY, utcnow, rate_limits, rCalls>>
xVars == <<cVars, mVars, aVars, rVars>>

vars == <<text, pcPhase, pcOut, dText, dSender, dName, dRaise, dPhase, dRes,
          hText, hPhase, hOut, pParser, pIn, pPhase, pOut,
          FIRESTORE_ENABLED, SAGE_ENABLED, inbound, processed_messages,
          reference_locks, sage_queue, sage_documents,
          sInvoice, sEnv, sPhase, sOut, now, calls, tables,
          mText, mPhase, mOut, aLines, aPhase, aOut,
          RATE_LIMIT_PER_DAY, utcnow, rate_limits, rCalls>>

\* Python's None where a string is expected (no text is equal to it), where a
\* match object is expected, and where an account number is expected
None == <<"None">>
NoMatch == [matched |-> FALSE]
NoAccount == 0

\* nothing invoked, nothing logged, no outcome yet
NoCall == [called |-> <<>>, log |-> <<>>, outcome |-> "pending"]

pcIdle == text = <<>> /\ pcPhase = "idle" /\ pcOut = None

dIdle ==
    /\ dText = "" /\ dSender = "" /\ dName = "" /\ dRaise = TRUE
    /\ dPhase = "idle" /\ dRes = NoCall

hIdle == hText = "" /\ hPhase = "idle" /\ hOut = <<>>

\* Optional[float] with no value
NoAmount == <<>>

\* no call of an extractor: nothing found, nothing returned
\* a text seen through an extractor's block pattern: whether the label is
\* there, what precedes it, the block after it and what follows the block
NoDocument == [labelled |-> FALSE, before |-> <<>>, block |-> <<>>, after |-> <<>>]

NoInput ==
    [postcode |-> None, document |-> NoDocument, is_credit |-> FALSE, invoice_date |-> FALSE,
     invoice_number |-> "", invoice_date_raw |-> FALSE, terms_days |-> FALSE,
     deliver_to |-> <<>>, close_at_tolerance |-> TRUE, vat_analysis |-> <<>>,
     zero_row |-> NoAmount, rate_row |-> NoAmount, total_line |-> NoAmount,
     vat_net |-> NoAmount, nonvat_net |-> NoAmount, vat_amount |-> NoAmount,
     total |-> NoAmount, net |-> NoAmount, subtotal |-> NoAmount,
     zero_net |-> NoAmount, standard_net |-> NoAmount,
     order_net |-> NoAmount, order_vat |-> NoAmount, order_total |-> NoAmount,
     total_excl_vat |-> NoAmount, totals_vat_amount |-> NoAmount,
     total_incl_vat |-> NoAmount, total_gbp_incl_vat |-> NoAmount,
     vat_section_total |-> NoAmount, total_gbp |-> NoAmount,
     vat_net_from_breakdown |-> NoAmount, nonvat_net_from_breakdown |-> NoAmount,
     vat_amount_from_breakdown |-> NoAmount,
     split_vat_net |-> NoAmount, split_nonvat_net |-> NoAmount,
     net_values |-> NoAmount, vat_values |-> NoAmount]

NoResult == [records |-> <<>>, error |-> "pending"]

pIdle == pParser = "" /\ pIn = NoInput /\ pPhase = "idle" /\ pOut = NoResult

iIdle ==
    /\ FIRESTORE_ENABLED = FALSE /\ SAGE_ENABLED = FALSE /\ inbound = <<>>
    /\ processed_messages = {} /\ reference_locks = {}
    /\ sage_queue = {} /\ sage_documents = {}

\* a date is <<year, month, day>>; no date: None
NoDay == <<>>

NoRecord ==
    [is_credit |-> FALSE, ledger_account |-> NoAccount, contact_id |-> FALSE,
     invoice_date |-> NoDay, due_date |-> NoDay,
     vat_net |-> 0, nonvat_net |-> 0, vat_amount |-> 0]

NoEnv ==
    [SAGE_BUSINESS_ID |-> FALSE, SAGE_CONTACT_ID |-> FALSE, SAGE_LEDGER_ID |-> FALSE,
     oauth |-> FALSE, already_exists |-> FALSE, status_code |-> 200]

NotPosted == [status |-> "pending", payload |-> <<>>]

sIdle == sInvoice = NoRecord /\ sEnv = NoEnv /\ sPhase = "idle" /\ sOut = NotPosted

cIdle == now = <<>> /\ calls = {} /\ tables = <<>>

mIdle == mText = <<>> /\ mPhase = "idle" /\ mOut = [matched |-> FALSE, pence |-> 0]

aIdle ==
    /\ aLines = <<>>
    /\ aPhase = "idle"
    /\ aOut = [found_rates |-> FALSE, vat_net |-> 0, nonvat_net |-> 0, vat_amount |-> 0]

rIdle == RATE_LIMIT_PER_DAY = "" /\ utcnow = <<>> /\ rate_limits = <<>> /\ rCalls = <<>>

xIdle == cIdle /\ mIdle /\ aIdle /\ rIdle

(***************************************************************************)
(* Characters                                                              *)
(***************************************************************************)
UpperAlphabet == "ABCDEFGHIJKLMNOPQRSTUVWXYZ"
LowerAlphabet == "abcdefghijklmnopqrstuvwxyz"
UpperLetters == {SubSeq(UpperAlphabet, i, i) : i \in 1..Len(UpperAlphabet)}
LowerLetters == {SubSeq(LowerAlphabet, i, i) : i \in 1..Len(LowerAlphabet)}
Digits == {"0", "1", "2", "3", "4", "5", "6", "7", "8", "9"}
Whitespace == {" ", "\t", "\n"}

\* str.upper() and str.lower() on one character
UpperMap == [i \in 1..Len(LowerAlphabet) |-> SubSeq(UpperAlphabet, i, i)]
LowerMap == [i \in 1..Len(UpperAlphabet) |-> SubSeq(LowerAlphabet, i, i)]
UpperOf == [c \in LowerLetters |-> UpperMap[CHOOSE i \in 1..Len(LowerAlphabet) : SubSeq(LowerAlphabet, i, i) = c]]
LowerOf == [c \in UpperLetters |-> LowerMap[CHOOSE i \in 1..Len(UpperAlphabet) : SubSeq(UpperAlphabet, i, i) = c]]

IsLetter(c) == c \in UpperLetters \cup LowerLetters
IsDigit(c) == c \in Digits
IsSpace(c) == c \in Whitespace
\* \w of Python's re: letters, digits and the underscore
IsWord(c) == IsLetter(c) \/ IsDigit(c) \/ c = "_"

UpperChar(c) == IF c \in LowerLetters THEN UpperOf[c] ELSE c

LowerChar(c) == IF c \in UpperLetters THEN LowerOf[c] ELSE c

Upper(s) == [i \in 1..Len(s) |-> UpperChar(s[i])]

\* str.replace(" ", ""): only the space character is removed
RECURSIVE RemoveSpaces(_)
RemoveSpaces(s) ==
    IF s = <<>> THEN <<>>
    ELSE IF Head(s) = " " THEN RemoveSpaces(Tail(s))
    ELSE <<Head(s)>> \o RemoveSpaces(Tail(s))

\* re.sub(r"\s+", "", s): whitespace of every kind is removed
RECURSIVE RemoveWhitespace(_)
RemoveWhitespace(s) ==
    IF s = <<>> THEN <<>>
    ELSE IF IsSpace(Head(s)) THEN RemoveWhitespace(Tail(s))
    ELSE <<Head(s)>> \o RemoveWhitespace(Tail(s))

\* str.strip(): leading and trailing whitespace of every kind is removed
RECURSIVE LStrip(_)
LStrip(s) ==
    IF s # <<>> /\ IsSpace(Head(s)) THEN LStrip(Tail(s)) ELSE s

RECURSIVE RStrip(_)
RStrip(s) ==
    IF s # <<>> /\ IsSpace(s[Len(s)]) THEN RStrip(SubSeq(s, 1, Len(s) - 1)) ELSE s

Strip(s) == RStrip(LStrip(s))

(***************************************************************************)
(* app/parse_utils.py: LEDGER_MAP, normalize_postcode                      *)
(***************************************************************************)
PC_CF10_1AE == <<"C", "F", "1", "0", " ", "1", "A", "E">>
PC_CF24_3LP == <<"C", "F", "2", "4", " ", "3", "L", "P">>
PC_CF11_9DX == <<"C", "F", "1", "1", " ", "9", "D", "X">>

LedgerKeys == {PC_CF10_1AE, PC_CF24_3LP, PC_CF11_9DX}

LEDGER_MAP(pc) ==
    CASE pc = PC_CF10_1AE -> 5001
      [] pc = PC_CF24_3LP -> 5002
      [] pc = PC_CF11_9DX -> 5004
      [] OTHER -> NoAccount

\* f"{raw[:-3]} {raw[-3:]}"
InsertSpace(r) == SubSeq(r, 1, Len(r) - 3) \o <<" ">> \o SubSeq(r, Len(r) - 2, Len(r))

\* raw.strip().upper().replace(" ", "")
Squeeze(raw) == RemoveSpaces(Upper(Strip(raw)))

NormalizeSqueezed(r) == IF Len(r) < 5 THEN None ELSE InsertSpace(r)

normalize_postcode(raw) ==
    IF raw = <<>> THEN None ELSE NormalizeSqueezed(Squeeze(raw))

(***************************************************************************)
(* app/parse_utils.py: POSTCODE_RE                                         *)
(*   \b([A-Z]{1,2}\d{1,2}[A-Z]?)\s*(\d[A-Z]{2})\b   with re.IGNORECASE      *)
(***************************************************************************)
CharAt(s, i) == IF i >= 1 /\ i <= Len(s) THEN s[i] ELSE "$"

\* \b between positions i-1 and i
WordBoundary(s, i) == IsWord(CharAt(s, i - 1)) # IsWord(CharAt(s, i))

AllLetters(s, from, n) == \A k \in from..(from + n - 1) : IsLetter(CharAt(s, k))
AllDigits(s, from, n) == \A k \in from..(from + n - 1) : IsDigit(CharAt(s, k))

\* \s* is greedy; what follows it is a digit, so only the whole run can match
RECURSIVE SpaceRun(_, _)
SpaceRun(s, p) == IF IsSpace(CharAt(s, p)) THEN 1 + SpaceRun(s, p + 1) ELSE 0

\* the repetition counts <<letters, digits, optional letter>> in the order the
\* backtracking matcher tries them (each quantifier is greedy)
PostcodeTries ==
    << <<2, 2, 1>>, <<2, 2, 0>>, <<2, 1, 1>>, <<2, 1, 0>>,
       <<1, 2, 1>>, <<1, 2, 0>>, <<1, 1, 1>>, <<1, 1, 0>> >>

PostcodeTryAt(s, i, t, p1, p2) ==
    /\ WordBoundary(s, i)
    /\ AllLetters(s, i, t[1])
    /\ AllDigits(s, i + t[1], t[2])
    /\ AllLetters(s, i + t[1] + t[2], t[3])
    /\ IsDigit(CharAt(s, p2))
    /\ IsLetter(CharAt(s, p2 + 1))
    /\ IsLetter(CharAt(s, p2 + 2))
    /\ WordBoundary(s, p2 + 3)

\* p1: where \s* starts; p2: where the inward code starts
TryP1(i, t) == i + t[1] + t[2] + t[3]
TryP2(s, p1) == p1 + SpaceRun(s, p1)

PostcodeTryOk(s, i, t) == PostcodeTryAt(s, i, t, TryP1(i, t), TryP2(s, TryP1(i, t)))

PostcodeMatchObject(s, i, p1, p2) ==
    [matched |-> TRUE,
     start |-> i,
     stop |-> p2 + 2,
     g0 |-> SubSeq(s, i, p2 + 2),
     g1 |-> SubSeq(s, i, p1 - 1),
     g2 |-> SubSeq(s, p2, p2 + 2)]

MinOf(S) == CHOOSE k \in S : \A j \in S : k <= j

PostcodeMatchWith(s, i, ok) ==
    IF ok = {} THEN NoMatch
    ELSE PostcodeMatchObject(s, i, TryP1(i, PostcodeTries[MinOf(ok)]),
                             TryP2(s, TryP1(i, PostcodeTries[MinOf(ok)])))

\* the match object of POSTCODE_RE anchored at i, or NoMatch
PostcodeMatchAt(s, i) ==
    PostcodeMatchWith(s, i,
        {k \in 1..Len(PostcodeTries) : PostcodeTryOk(s, i, PostcodeTries[k])})

PostcodeFirstOf(s, hits) ==
    IF hits = {} THEN NoMatch ELSE PostcodeMatchAt(s, MinOf(hits))

\* POSTCODE_RE.search(s, pos): the leftmost match starting at or after pos
PostcodeSearchFrom(s, pos) ==
    PostcodeFirstOf(s, {i \in pos..Len(s) : PostcodeMatchAt(s, i).matched})

POSTCODE_RE_search(s) == PostcodeSearchFrom(s, 1)

\* POSTCODE_RE.findall / finditer: the non-overlapping matches, left to right
RECURSIVE PostcodeFindFrom(_, _)
PostcodeFindNext(s, m) ==
    IF ~m.matched THEN <<>> ELSE <<m>> \o PostcodeFindFrom(s, m.stop + 1)

PostcodeFindFrom(s, pos) == PostcodeFindNext(s, PostcodeSearchFrom(s, pos))

POSTCODE_RE_findall(s) == PostcodeFindFrom(s, 1)

(***************************************************************************)
(* app/parse_utils.py: extract_delivery_postcode                           *)
(***************************************************************************)
RECURSIVE DropNone(_)
DropNone(xs) ==
    IF xs = <<>> THEN <<>>
    ELSE IF Head(xs) = None THEN DropNone(Tail(xs))
    ELSE <<Head(xs)>> \o DropNone(Tail(xs))

\* for pc in normalized: if pc in LEDGER_MAP: return pc
RECURSIVE FirstKnown(_)
FirstKnown(xs) ==
    IF xs = <<>> THEN None
    ELSE IF Head(xs) \in LedgerKeys THEN Head(xs)
    ELSE FirstKnown(Tail(xs))

\* [normalize_postcode(f"{m[0]}{m[1]}") for m in matches], None dropped
NormalizeGroups(matches) ==
    DropNone([k \in 1..Len(matches) |->
                 normalize_postcode(matches[k].g1 \o matches[k].g2)])

NormalizedCandidates(s) == NormalizeGroups(POSTCODE_RE_findall(s))

FirstOrNone(normalized) == IF normalized # <<>> THEN normalized[1] ELSE None

KnownOrFirst(normalized, known) ==
    IF known # None THEN known ELSE FirstOrNone(normalized)

PreferKnown(normalized) == KnownOrFirst(normalized, FirstKnown(normalized))

\* the mutant of extract_delivery_postcode: the first postcode found, known or not
extract_delivery_postcode_first(s) == FirstOrNone(NormalizedCandidates(s))

extract_delivery_postcode(s) == PreferKnown(NormalizedCandidates(s))

(***************************************************************************)
(* The postcode helpers applied to bounded inputs.  An input is up to      *)
(* MaxChunks pieces of text put side by side.                              *)
(***************************************************************************)
MaxChunks == 3

Chunks ==
    { PC_CF10_1AE,                                   \* a store postcode
      <<"c", "f", "2", "4", "3", "L", "P">>,         \* lower case, no separator
      <<"C", "F", "1", "1", "\t", "9", "D", "X">>,   \* separated by a tab
      <<"S", "O", "1", "6", " ", "0", "Y", "S">>,    \* well formed, not a store
      <<"B", "N", "1", " ", " ", "1", "A", "A">>,    \* two spaces
      <<"C", "F", "1">>,                             \* too short
      <<" ", "a", "t", " ">>,
      <<"\n">>,
      <<"x">> }

RECURSIVE Texts(_)
Texts(n) ==
    IF n = 0 THEN {<<>>}
    ELSE Texts(n - 1) \cup {t \o c : t \in Texts(n - 1), c \in Chunks}

PcInit ==
    /\ text \in Texts(MaxChunks)
    /\ pcPhase = "input"
    /\ pcOut = None
    /\ dIdle
    /\ hIdle
    /\ pIdle
    /\ iIdle
    /\ sIdle
    /\ xIdle

Normalize ==
    /\ pcPhase = "input"
    /\ pcPhase' = "normalized"
    /\ pcOut' = normalize_postcode(text)
    /\ UNCHANGED <<text, dVars, hVars, pVars, iVars, sVars, xVars>>

Extract ==
    /\ pcPhase = "input"
    /\ pcPhase' = "extracted"
    /\ pcOut' = extract_delivery_postcode(text)
    /\ UNCHANGED <<text, dVars, hVars, pVars, iVars, sVars, xVars>>

PcNext == Normalize \/ Extract

SpecPostcode == PcInit /\ [][PcNext]_vars

(***************************************************************************)
(* Strings: the str methods the dispatcher uses                            *)
(***************************************************************************)
StrAt(s, i) == IF i >= 1 /\ i <= Len(s) THEN SubSeq(s, i, i) ELSE "$"

\* str.lower(), character by character (the string is halved rather than
\* walked, which keeps the evaluation shallow)
RECURSIVE StrLower(_)
StrLower(s) ==
    IF Len(s) = 0 THEN ""
    ELSE IF Len(s) = 1 THEN LowerChar(s)
    ELSE StrLower(SubSeq(s, 1, Len(s) \div 2)) \o StrLower(SubSeq(s, Len(s) \div 2 + 1, Len(s)))

\* str.replace(" ", "")
RECURSIVE StrRemoveSpaces(_)
StrRemoveSpaces(s) ==
    IF Len(s) = 0 THEN ""
    ELSE IF Len(s) = 1 THEN (IF s = " " THEN "" ELSE s)
    ELSE StrRemoveSpaces(SubSeq(s, 1, Len(s) \div 2))
         \o StrRemoveSpaces(SubSeq(s, Len(s) \div 2 + 1, Len(s)))

\* sub in s
Contains(s, sub) ==
    \E i \in 1..(Len(s) - Len(sub) + 1) : SubSeq(s, i, i + Len(sub) - 1) = sub

\* s.endswith(suffix)
EndsWith(s, suffix) ==
    /\ Len(s) >= Len(suffix)
    /\ SubSeq(s, Len(s) - Len(suffix) + 1, Len(s)) = suffix

\* the length of the run of whitespace, resp. of digits, that starts at position i
RECURSIVE StrSpaceRun(_, _)
StrSpaceRun(s, i) == IF IsSpace(StrAt(s, i)) THEN 1 + StrSpaceRun(s, i + 1) ELSE 0

RECURSIVE StrDigitRun(_, _)
StrDigitRun(s, i) == IF IsDigit(StrAt(s, i)) THEN 1 + StrDigitRun(s, i + 1) ELSE 0

StrWordBoundary(s, i) == IsWord(StrAt(s, i - 1)) # IsWord(StrAt(s, i))

\* The source holds two characters outside ASCII: the right single quotation
\* mark (U+2019) in one spelling of "hunt's food group" and the e acute (U+00E9)
\* in one spelling of "nestle".  They are written here as the characters below,
\* which occur in no other marker or input.
RSQUO == "~"
EACUTE == "|"

(***************************************************************************)
(* main.py: the _text_looks_like_* heuristics.  Each takes the lower-cased *)
(* text: normalized = (text or "").lower()                                 *)
(***************************************************************************)
clf_markers(normalized) ==
    \/ Contains(normalized, "clf distribution")
    \/ Contains(normalized, "clf distribution ltd")
    \/ Contains(normalized, "gb712190568")

_text_looks_like_clf(t) == clf_markers(StrLower(t))

viridian_markers(normalized) ==
    \/ Contains(normalized, "viridian international")
    \/ Contains(normalized, "viridian nutrition")
    \/ Contains(normalized, "viridian-nutrition.com")
    \/ Contains(normalized, "viridian")
    \/ Contains(normalized, "gb738632315")

_text_looks_like_viridian(t) == viridian_markers(StrLower(t))

\* the first definition of _text_looks_like_hunts (main.py:538), which the
\* second definition (main.py:699) replaces when the module is loaded
hunts_markers_first(normalized) ==
    \/ Contains(normalized, "hunt" \o RSQUO \o "s food group")
    \/ Contains(normalized, "hunt's food group")
    \/ Contains(normalized, "hunts food group")
    \/ Contains(normalized, "huntsfoodgroup")
    \/ Contains(normalized, "hub@huntsfoodgroup.co.uk")
    \/ Contains(normalized, "vat no: 813 0548 57")

hunts_markers(normalized) ==
    \/ Contains(normalized, "hunt" \o RSQUO \o "s food group")
    \/ Contains(normalized, "hunt's food group")
    \/ Contains(normalized, "hunts food group")
    \/ Contains(normalized, "hub@huntsfoodgroup.co.uk")
    \/ Contains(normalized, "vat no: 813 0548 57")

_text_looks_like_hunts(t) == hunts_markers(StrLower(t))

essential_markers(normalized) ==
    \/ Contains(normalized, "essential-trading.coop")
    \/ Contains(normalized, "www.essential-trading.coop")
    \/ Contains(normalized, "sales@essential-trading.coop")
    \/ Contains(normalized, "essential trading cooperative")
    \/ Contains(normalized, "essential trading co-operative")
    \/ Contains(normalized, "essential trading co operative")
    \/ Contains(normalized, "essential trading cooperative ltd")
    \/ Contains(normalized, "essential trading co-operative ltd")
    \/ Contains(normalized, "gb303067304")

_text_looks_like_essential(t) == essential_markers(StrLower(t))

avogel_markers(normalized) ==
    \/ Contains(normalized, "a.vogel ltd")
    \/ Contains(normalized, "a vogel ltd")
    \/ Contains(normalized, "a.vogel")
    \/ Contains(normalized, "avogel.co.uk")
    \/ Contains(normalized, "vat no. 454 9330 37")
    \/ Contains(normalized, "vat no: 454 9330 37")
    \/ Contains(normalized, "sales i n voice")

_text_looks_like_avogel(t) == avogel_markers(StrLower(t))

pestokill_markers(normalized) ==
    \/ Contains(normalized, "pestokill")
    \/ Contains(normalized, "horizon environment services")
    \/ Contains(normalized, "437 6371 34")

_text_looks_like_pestokill(t) == pestokill_markers(StrLower(t))

lewtress_markers(normalized) ==
    \/ Contains(normalized, "lewtress natural health")
    \/ Contains(normalized, "827199789")

_text_looks_like_lewtress(t) == lewtress_markers(StrLower(t))

biocare_markers(normalized) ==
    \/ Contains(normalized, "biocare limited")
    \/ Contains(normalized, "biocare.co.uk")
    \/ Contains(normalized, "249786641")

_text_looks_like_biocare(t) == biocare_markers(StrLower(t))

kinetic_markers(normalized) ==
    \/ Contains(normalized, "kinetic enterprises")
    \/ Contains(normalized, "6058949")

_text_looks_like_kinetic(t) == kinetic_markers(StrLower(t))

absolute_aromas_markers(normalized) ==
    \/ Contains(normalized, "absolute aromas")
    \/ Contains(normalized, "absolute-aromas.com")
    \/ Contains(normalized, "278 1735 71")

_text_looks_like_absolute_aromas(t) == absolute_aromas_markers(StrLower(t))

emporio_markers(normalized) ==
    \/ Contains(normalized, "emporio uk ltd")
    \/ Contains(normalized, "emporiouk.com")
    \/ Contains(normalized, "900 2642 72")

_text_looks_like_emporio(t) == emporio_markers(StrLower(t))

\* re.search(r"vat number\s+125201466", normalized)
VatNumberAt(normalized, i, run) ==
    /\ i + 18 + run <= Len(normalized)
    /\ SubSeq(normalized, i, i + 9) = "vat number"
    /\ run >= 1
    /\ SubSeq(normalized, i + 10 + run, i + 18 + run) = "125201466"

watson_pratt_vat_number(normalized) ==
    \E i \in 1..Len(normalized) :
        VatNumberAt(normalized, i, StrSpaceRun(normalized, i + 10))

watson_pratt_markers(normalized) ==
    /\ Contains(normalized, "tax invoice")
    /\ Contains(normalized, "invoice number")
    /\ Contains(normalized, "amount gbp")
    /\ watson_pratt_vat_number(normalized)

_text_looks_like_watson_pratt(t) == watson_pratt_markers(StrLower(t))

\* re.search(r"\bIN-\d+\b", name, re.IGNORECASE)
InvoiceNumberAt(name, i, run) ==
    /\ i + 2 <= Len(name)
    /\ StrLower(SubSeq(name, i, i + 2)) = "in-"
    /\ StrWordBoundary(name, i)
    /\ run >= 1
    /\ StrWordBoundary(name, i + 3 + run)

_filename_looks_like_watson_pratt(name) ==
    \E i \in 1..Len(name) : InvoiceNumberAt(name, i, StrDigitRun(name, i + 3))

nestle_markers(normalized) ==
    \/ Contains(normalized, "nestle uk ltd")
    \/ Contains(normalized, "nestle")
    \/ Contains(normalized, "nestl" \o EACUTE)
    \/ Contains(normalized, "nestle uk")
    \/ (Contains(normalized, "vat reg no") /\ Contains(normalized, "nestle"))

_text_looks_like_nestle(t) == nestle_markers(StrLower(t))

natures_plus_markers(normalized) ==
    \/ Contains(normalized, "naturesplus")
    \/ Contains(normalized, "natures plus")
    \/ Contains(normalized, "nature's plus")
    \/ Contains(normalized, "vat reg no: gb718284519")

_text_looks_like_natures_plus(t) == natures_plus_markers(StrLower(t))

bionature_markers(normalized) ==
    \/ Contains(normalized, "bio-nature limited")
    \/ Contains(normalized, "bionature.uk.com")
    \/ Contains(normalized, "bio nature")
    \/ Contains(normalized, "bionature")
    \/ Contains(normalized, "vat reg no: 847 3436 08")
    \/ Contains(StrRemoveSpaces(normalized), StrRemoveSpaces("vat reg no: 847 3436 08"))

_text_looks_like_bionature(t) == bionature_markers(StrLower(t))

natures_aid_markers(normalized) ==
    \/ Contains(normalized, "natures aid ltd")
    \/ Contains(normalized, "naturesaid.co.uk")
    \/ Contains(normalized, "nature's aid")
    \/ Contains(normalized, "natures aid")
    \/ Contains(normalized, "vat reg no: gb 604 7052 68")
    \/ Contains(StrRemoveSpaces(normalized), "vat reg no: gb604705268")

_text_looks_like_natures_aid(t) == natures_aid_markers(StrLower(t))

tonyrefail_markers(normalized) ==
    \/ Contains(normalized, "tonyrefail apiary")
    \/ Contains(normalized, "tonyrefailapiary@googlemail.com")
    \/ Contains(normalized, "tonyrefail")
    \/ Contains(normalized, "pure welsh honey")

_text_looks_like_tonyrefail(t) == tonyrefail_markers(StrLower(t))

(***************************************************************************)
(* main.py: _detect_and_parse.  The value records the extractors the call  *)
(* invokes (in call order), the log records it writes and how it ends:     *)
(* with the extractor's result, with HTTP 400 or with None.                *)
(***************************************************************************)
\* return parse_x(text) / return [parse_x(text)]
Invoke(extractor, log) ==
    [called |-> <<extractor>>, log |-> log, outcome |-> "extractor"]

\* the info record written when the text, not the sender, selected the extractor
NoteUnless(is_sender, note) == IF is_sender THEN <<>> ELSE <<note>>

NoteHunts == "Sender not Hunts domain but text looks like Hunts; using Hunts parser"
NoteEssential == "Sender not Essential domain but text looks like Essential; using Essential parser"
NoteClf == "Sender not CLF domain but text looks like CLF; using CLF parser"
NoteViridian == "Sender not Viridian domain but text looks like Viridian; using Viridian parser"
NoteFilename == "Text did not match Watson & Pratt heuristics; matched by filename"
NoteNoMatch == "No supplier parser matched"

\* the else branch: a warning, then HTTP 400 or None
NoSupplier(raise_on_unknown) ==
    [called |-> <<>>,
     log |-> <<NoteNoMatch>>,
     outcome |-> IF raise_on_unknown THEN "HTTP 400 Unsupported supplier" ELSE "None"]

\* the branches that test the text and the attachment name only
DetectByContent(t, name, raise_on_unknown) ==
    IF _text_looks_like_watson_pratt(t) \/ _filename_looks_like_watson_pratt(name)
      THEN Invoke("parse_watson_pratt",
                  NoteUnless(_text_looks_like_watson_pratt(t), NoteFilename))
    ELSE IF _text_looks_like_nestle(t) THEN Invoke("parse_nestle", <<>>)
    ELSE IF _text_looks_like_natures_plus(t) THEN Invoke("parse_natures_plus", <<>>)
    ELSE IF _text_looks_like_bionature(t) THEN Invoke("parse_bionature", <<>>)
    ELSE IF _text_looks_like_natures_aid(t) THEN Invoke("parse_natures_aid", <<>>)
    ELSE IF _text_looks_like_tonyrefail(t) THEN Invoke("parse_tonyrefail", <<>>)
    ELSE IF _text_looks_like_avogel(t) THEN Invoke("parse_avogel", <<>>)
    ELSE IF _text_looks_like_emporio(t) THEN Invoke("parse_emporio", <<>>)
    ELSE IF _text_looks_like_pestokill(t) THEN Invoke("parse_pestokill", <<>>)
    ELSE IF _text_looks_like_absolute_aromas(t) THEN Invoke("parse_absolute_aromas", <<>>)
    ELSE IF _text_looks_like_lewtress(t) THEN Invoke("parse_lewtress", <<>>)
    ELSE IF _text_looks_like_biocare(t) THEN Invoke("parse_biocare", <<>>)
    ELSE IF _text_looks_like_kinetic(t) THEN Invoke("parse_kinetic", <<>>)
    ELSE NoSupplier(raise_on_unknown)

\* a mutant of DetectChain: the Essential branch is tested before the Hunts branch
DetectChainEssentialFirst(t, name, raise_on_unknown, is_clf, is_viridian, is_hunts, is_essential) ==
    IF is_essential \/ _text_looks_like_essential(t)
      THEN Invoke("parse_essential", NoteUnless(is_essential, NoteEssential))
    ELSE IF is_hunts \/ _text_looks_like_hunts(t)
      THEN Invoke("parse_hunts", NoteUnless(is_hunts, NoteHunts))
    ELSE IF is_clf \/ _text_looks_like_clf(t)
      THEN Invoke("parse_clf", NoteUnless(is_clf, NoteClf))
    ELSE IF is_viridian \/ _text_looks_like_viridian(t)
      THEN Invoke("parse_viridian", NoteUnless(is_viridian, NoteViridian))
    ELSE DetectByContent(t, name, raise_on_unknown)

\* a mutant of DetectChain: the text is consulted only when the sender is unknown
DetectChainSenderOnly(t, name, raise_on_unknown, is_clf, is_viridian, is_hunts, is_essential) ==
    IF is_hunts THEN Invoke("parse_hunts", <<>>)
    ELSE IF is_essential THEN Invoke("parse_essential", <<>>)
    ELSE IF is_clf THEN Invoke("parse_clf", <<>>)
    ELSE IF is_viridian THEN Invoke("parse_viridian", <<>>)
    ELSE IF _text_looks_like_hunts(t) THEN Invoke("parse_hunts", <<NoteHunts>>)
    ELSE IF _text_looks_like_essential(t) THEN Invoke("parse_essential", <<NoteEssential>>)
    ELSE IF _text_looks_like_clf(t) THEN Invoke("parse_clf", <<NoteClf>>)
    ELSE IF _text_looks_like_viridian(t) THEN Invoke("parse_viridian", <<NoteViridian>>)
    ELSE DetectByContent(t, name, raise_on_unknown)

\* a mutant of DetectChain: the text is consulted before the sender
DetectChainContentFirst(t, name, raise_on_unknown, is_clf, is_viridian, is_hunts, is_essential) ==
    IF _text_looks_like_hunts(t)
      THEN Invoke("parse_hunts", NoteUnless(is_hunts, NoteHunts))
    ELSE IF _text_looks_like_essential(t)
      THEN Invoke("parse_essential", NoteUnless(is_essential, NoteEssential))
    ELSE IF _text_looks_like_clf(t)
      THEN Invoke("parse_clf", NoteUnless(is_clf, NoteClf))
    ELSE IF _text_looks_like_viridian(t)
      THEN Invoke("parse_viridian", NoteUnless(is_viridian, NoteViridian))
    ELSE IF is_hunts THEN Invoke("parse_hunts", <<>>)
    ELSE IF is_essential THEN Invoke("parse_essential", <<>>)
    ELSE IF is_clf THEN Invoke("parse_clf", <<>>)
    ELSE IF is_viridian THEN Invoke("parse_viridian", <<>>)
    ELSE DetectByContent(t, name, raise_on_unknown)

\* the if / elif chain of _detect_and_parse
DetectChain(t, name, raise_on_unknown, is_clf, is_viridian, is_hunts, is_essential) ==
    IF is_hunts \/ _text_looks_like_hunts(t)
      THEN Invoke("parse_hunts", NoteUnless(is_hunts, NoteHunts))
    ELSE IF is_essential \/ _text_looks_like_essential(t)
      THEN Invoke("parse_essential", NoteUnless(is_essential, NoteEssential))
    ELSE IF is_clf \/ _text_looks_like_clf(t)
      THEN Invoke("parse_clf", NoteUnless(is_clf, NoteClf))
    ELSE IF is_viridian \/ _text_looks_like_viridian(t)
      THEN Invoke("parse_viridian", NoteUnless(is_viridian, NoteViridian))
    ELSE DetectByContent(t, name, raise_on_unknown)

_detect_and_parse(t, sender_email, attachment_name, raise_on_unknown) ==
    DetectChain(t, attachment_name, raise_on_unknown,
                EndsWith(sender_email, "@clfdistribution.com"),
                EndsWith(sender_email, "@viridian-nutrition.com"),
                EndsWith(sender_email, "@huntsfoodgroup.co.uk"),
                EndsWith(sender_email, "@essential-trading.coop"))

(***************************************************************************)
(* The dispatcher applied to bounded inputs.  A document is up to          *)
(* MaxFragments lines, each a phrase of a supplier's invoice, taken in the  *)
(* order of DocFragments.                                                  *)
(***************************************************************************)
MaxFragments == 2

DocFragments ==
    << "Hunt's Food Group Ltd",
       "www.huntsfoodgroup.co.uk",
       "Essential Trading Co-operative Ltd",
       "CLF Distribution Ltd",
       "Viridian International Ltd",
       "TAX INVOICE Invoice Number Amount GBP VAT Number  125201466",
       "Nestle UK Ltd",
       "NaturesPlus",
       "VAT Reg No: 847343608",
       "Nature's Aid",
       "Pure Welsh Honey",
       "A.Vogel Ltd",
       "Emporio UK Ltd",
       "PESTOKILL",
       "absolute-aromas.com",
       "Lewtress Natural Health",
       "BioCare Limited",
       "Kinetic Enterprises",
       "Acme Wholefoods Ltd" >>

\* the documents whose lines are fragments from .. Len(DocFragments), at most n of them
RECURSIVE Documents(_, _)
Documents(n, from) ==
    IF n = 0 \/ from > Len(DocFragments) THEN {""}
    ELSE Documents(n, from + 1) \cup
         {DocFragments[from] \o "\n" \o d : d \in Documents(n - 1, from + 1)}

Senders ==
    { "hub@huntsfoodgroup.co.uk",
      "sales@essential-trading.coop",
      "accounts@clfdistribution.com",
      "Orders@viridian-nutrition.com",
      "someone@example.com" }

AttachmentNames == {"IN-20417.pdf", "invoice.pdf"}

DetectInit ==
    /\ dText \in Documents(MaxFragments, 1)
    /\ dSender \in Senders
    /\ dName \in AttachmentNames
    /\ dRaise \in BOOLEAN
    /\ dPhase = "called"
    /\ dRes = NoCall
    /\ pcIdle
    /\ hIdle
    /\ pIdle
    /\ iIdle
    /\ sIdle
    /\ xIdle

DetectAndParse ==
    /\ dPhase = "called"
    /\ dPhase' = "returned"
    /\ dRes' = _detect_and_parse(dText, dSender, dName, dRaise)
    /\ UNCHANGED <<dText, dSender, dName, dRaise, pcVars, hVars, pVars, iVars, sVars, xVars>>

DetectNext == DetectAndParse

SpecDetect == DetectInit /\ [][DetectNext]_vars

(***************************************************************************)
(* app/parsers/hunts.py: parse_hunts, the split of a document into the     *)
(* sections of its invoices                                                *)
(***************************************************************************)
\* str.strip() on a string
RECURSIVE StrLStrip(_)
StrLStrip(s) ==
    IF Len(s) > 0 /\ IsSpace(SubSeq(s, 1, 1)) THEN StrLStrip(SubSeq(s, 2, Len(s))) ELSE s

RECURSIVE StrRStrip(_)
StrRStrip(s) ==
    IF Len(s) > 0 /\ IsSpace(SubSeq(s, Len(s), Len(s)))
    THEN StrRStrip(SubSeq(s, 1, Len(s) - 1)) ELSE s

StrStrip(s) == StrRStrip(StrLStrip(s))

\* text.replace(U+2019, "'"), character by character (the string is halved
\* rather than walked, which keeps the evaluation shallow)
RECURSIVE ReplaceRsquo(_)
ReplaceRsquo(s) ==
    IF Len(s) = 0 THEN ""
    ELSE IF Len(s) = 1 THEN (IF s = RSQUO THEN "'" ELSE s)
    ELSE ReplaceRsquo(SubSeq(s, 1, Len(s) \div 2))
         \o ReplaceRsquo(SubSeq(s, Len(s) \div 2 + 1, Len(s)))

\* int() of a run of decimal digits
DigitValue(c) == CHOOSE v \in 0..9 : SubSeq("0123456789", v + 1, v + 1) = c

RECURSIVE ToInt(_)
ToInt(ds) ==
    IF Len(ds) = 0 THEN 0
    ELSE 10 * ToInt(SubSeq(ds, 1, Len(ds) - 1)) + DigitValue(SubSeq(ds, Len(ds), Len(ds)))

HuntsHeader == "Hunt's Food Group Ltd"

HeaderAt(s, i) ==
    /\ i + Len(HuntsHeader) - 1 <= Len(s)
    /\ SubSeq(s, i, i + Len(HuntsHeader) - 1) = HuntsHeader

\* a set of numbers as the sequence of its elements in increasing order
RECURSIVE Ascending(_)
Ascending(S) == IF S = {} THEN <<>> ELSE <<MinOf(S)>> \o Ascending(S \ {MinOf(S)})

\* [m.start() for m in re.finditer(r"Hunt's Food Group Ltd", normalized)]: no
\* two occurrences of the header overlap, so finditer yields every occurrence
HeaderStarts(s) == Ascending({i \in 1..Len(s) : HeaderAt(s, i)})

\* normalized[start:end].strip() for each start, the empty pages left out
PageAt(s, starts, i) ==
    StrStrip(SubSeq(s, starts[i], IF i + 1 <= Len(starts) THEN starts[i + 1] - 1 ELSE Len(s)))

RECURSIVE PagesFrom(_, _, _)
PagesFrom(s, starts, i) ==
    IF i > Len(starts) THEN <<>>
    ELSE (IF PageAt(s, starts, i) # "" THEN <<PageAt(s, starts, i)>> ELSE <<>>)
         \o PagesFrom(s, starts, i + 1)

\* re.search(r"\b(\d+)\s+of\s+(\d+)\b", page).  The runs of digits and of
\* whitespace are matched whole: what follows each of them in the pattern cannot
\* match a character of the run.
PageMarkerWith(page, i, d1, s1, s2, d2) ==
    /\ StrWordBoundary(page, i)
    /\ d1 >= 1
    /\ s1 >= 1
    /\ i + d1 + s1 + 1 <= Len(page)
    /\ SubSeq(page, i + d1 + s1, i + d1 + s1 + 1) = "of"
    /\ s2 >= 1
    /\ d2 >= 1
    /\ StrWordBoundary(page, i + d1 + s1 + 2 + s2 + d2)

PageMarkerAfterOf(page, i, d1, s1, s2) ==
    PageMarkerWith(page, i, d1, s1, s2, StrDigitRun(page, i + d1 + s1 + 2 + s2))

PageMarkerAfterDigits(page, i, d1, s1) ==
    PageMarkerAfterOf(page, i, d1, s1, StrSpaceRun(page, i + d1 + s1 + 2))

PageMarkerFrom(page, i, d1) ==
    PageMarkerAfterDigits(page, i, d1, StrSpaceRun(page, i + d1))

PageMarkerAt(page, i) == PageMarkerFrom(page, i, StrDigitRun(page, i))

\* int(page_match.group(1)) of the leftmost match
FirstMarkerNumber(page, at) == ToInt(SubSeq(page, MinOf(at), MinOf(at) + StrDigitRun(page, MinOf(at)) - 1))

\* page_match and int(page_match.group(1)) > 1
MarkerContinues(page, at) == at # {} /\ FirstMarkerNumber(page, at) > 1

IsContinuation(page) == MarkerContinues(page, {i \in 1..Len(page) : PageMarkerAt(page, i)})

\* the loop over the pages: a continuation page is appended to the last section
\* when there is one, any other page starts a section
AppendToLast(sections, page) ==
    [sections EXCEPT ![Len(sections)] = sections[Len(sections)] \o "\n" \o page]

\* a mutant of MergePages: a continuation page starts a section of its own
RECURSIVE MergePagesNever(_, _)
MergePagesNever(pages, sections) ==
    IF pages = <<>> THEN sections
    ELSE MergePagesNever(Tail(pages), Append(sections, Head(pages)))

RECURSIVE MergePages(_, _)
MergePages(pages, sections) ==
    IF pages = <<>> THEN sections
    ELSE IF IsContinuation(Head(pages)) /\ sections # <<>>
         THEN MergePages(Tail(pages), AppendToLast(sections, Head(pages)))
         ELSE MergePages(Tail(pages), Append(sections, Head(pages)))

SectionsOf(normalized, starts) ==
    IF starts = <<>> THEN <<normalized>>
    ELSE MergePages(PagesFrom(normalized, starts, 1), <<>>)

SplitSections(normalized) == SectionsOf(normalized, HeaderStarts(normalized))

\* the sections parse_hunts hands to _parse_section, one record each, in order
hunts_sections(t) == IF t = "" THEN <<>> ELSE SplitSections(ReplaceRsquo(t))

\* _extract_invoice_number: re.search(r"\b(\d{3}-\d{6})\b", text)
InvoiceNumberMatchAt(s, i) ==
    /\ i + 9 <= Len(s)
    /\ StrWordBoundary(s, i)
    /\ \A k \in i..(i + 2) : IsDigit(StrAt(s, k))
    /\ StrAt(s, i + 3) = "-"
    /\ \A k \in (i + 4)..(i + 9) : IsDigit(StrAt(s, k))
    /\ StrWordBoundary(s, i + 10)

InvoiceNumberFrom(s, at) ==
    IF at = {} THEN "UNKNOWN" ELSE SubSeq(s, MinOf(at), MinOf(at) + 9)

\* _extract_invoice_number(text) or "UNKNOWN"
hunts_invoice_number(s) ==
    InvoiceNumberFrom(s, {i \in 1..Len(s) : InvoiceNumberMatchAt(s, i)})

\* the record _parse_section builds for a section, as far as the split decides
\* it: the supplier, the invoice number and the text the other fields are read
\* from (the postcode and money fields are modelled with the extractors)
hunts_record(section) ==
    [supplier |-> "Hunts",
     supplier_reference |-> hunts_invoice_number(section),
     section |-> section]

RecordsOf(sections) == [k \in 1..Len(sections) |-> hunts_record(sections[k])]

\* return [_parse_section(section) for section in sections]
parse_hunts(t) == RecordsOf(hunts_sections(t))

(***************************************************************************)
(* parse_hunts applied to bounded inputs: up to MaxPages pieces of text    *)
(* put one after the other.                                                *)
(***************************************************************************)
MaxPages == 4

HuntsPieces ==
    { "Hunt's Food Group Ltd\n510-303515 Page 1 of 2\n",
      "Hunt's Food Group Ltd\n510-303515 Page 2 of 2\n",
      "Hunt~s Food Group Ltd\n510-303516 1 of 1\n",
      "Hunt's Food Group Ltd\n510-303517\n",
      "Case 6 of 12\n",
      "HUNT'S FOOD GROUP LTD 510-303518\n" }

RECURSIVE HuntsTexts(_)
HuntsTexts(n) ==
    IF n = 0 THEN {""}
    ELSE HuntsTexts(n - 1) \cup {t \o p : t \in HuntsTexts(n - 1), p \in HuntsPieces}

HuntsInit ==
    /\ hText \in HuntsTexts(MaxPages)
    /\ hPhase = "called"
    /\ hOut = <<>>
    /\ pcIdle
    /\ dIdle
    /\ pIdle
    /\ iIdle
    /\ sIdle
    /\ xIdle

ParseHunts ==
    /\ hPhase = "called"
    /\ hPhase' = "returned"
    /\ hOut' = parse_hunts(hText)
    /\ UNCHANGED <<hText, pcVars, dVars, pVars, iVars, sVars, xVars>>

HuntsNext == ParseHunts

SpecHunts == HuntsInit /\ [][HuntsNext]_vars

(***************************************************************************)
(* app/parsers/*.py: how each extractor assembles its record from what its *)
(* helpers found in the text.  Money is counted in pence, so round(x, 2)   *)
(* changes nothing; an Optional[float] is <<>> (None) or <<pence>>.        *)
(***************************************************************************)
IsNone(a) == a = NoAmount

\* a if a is not None else b
IfNone(a, b) == IF a = NoAmount THEN b ELSE a

\* Python's "a or b" on Optional[float]: None and 0.0 are both falsy
OrElse(a, b) == IF a # NoAmount /\ a[1] # 0 THEN a ELSE b

\* (a or 0.0)
OrZero(a) == IF a = NoAmount THEN 0 ELSE a[1]

Abs(n) == IF n < 0 THEN 0 - n ELSE n
Max0(n) == IF n < 0 THEN 0 ELSE n

\* the default tolerance of approx_equal, 0.02, and the 0.05 parse_essential passes
DefaultTolerance == 2
EssentialTolerance == 5

\* math.isclose(left, right, abs_tol=tolerance, rel_tol=0.0)
approx_equal(left, right, tolerance) == Abs(left - right) <= tolerance

\* math.isclose(left, right, abs_tol=0.02) on the floats of two amounts that are
\* exactly 0.02 apart answers by their binary representation: 10.02 and 10.00
\* are close, 1.02 and 1.00 are not.  at_tolerance is that answer.
isclose(left, right, tolerance, at_tolerance) ==
    IF Abs(left - right) = tolerance THEN at_tolerance ELSE Abs(left - right) < tolerance

\* a warning, and a warning whose text ends with the postcode: f"...: {postcode}"
Warning(msg) == [msg |-> msg, postcode |-> None]
WarningAbout(msg, postcode) == [msg |-> msg, postcode |-> postcode]
WarnIf(cond, msg) == IF cond THEN <<Warning(msg)>> ELSE <<>>

Return(record) == [records |-> <<record>>, error |-> "none"]
Raise(exception) == [records |-> <<>>, error |-> exception]

\* the date an extractor parsed from the text, and parse_date("01/01/1970")
FoundDate == "2025-02-01"
Epoch == "1970-01-01"
\* the None that parse_date returns on a text that is not a date
NoDate == "None"

\* invoice_number = _extract_invoice_number(text or "") or "UNKNOWN"; the helpers
\* of essential.py and clf.py end with: return "UNKNOWN"
OrUnknown(invoice_number) == IF invoice_number = "" THEN "UNKNOWN" ELSE invoice_number

\* if not invoice_date: ... invoice_date = parse_date("01/01/1970")
DateOrEpoch(invoice_date) == IF invoice_date THEN FoundDate ELSE Epoch

\* app/models.py: the four monetary fields are Field(ge=0) and invoice_date is
\* a date; the constructor raises a ValidationError on a negative amount and
\* on a None date
InvoiceData(supplier, supplier_reference, invoice_date, is_credit, postcode, ledger, vat_net, nonvat_net, vat_amount, total, warnings) ==
    IF vat_net < 0 \/ nonvat_net < 0 \/ vat_amount < 0 \/ total < 0 \/ invoice_date = NoDate
    THEN Raise("ValidationError")
    ELSE Return([supplier |-> supplier, supplier_reference |-> supplier_reference,
                 invoice_date |-> invoice_date, is_credit |-> is_credit,
                 deliver_to_postcode |-> postcode, ledger_account |-> ledger,
                 vat_net |-> vat_net, nonvat_net |-> nonvat_net,
                 vat_amount |-> vat_amount, total |-> total,
                 warnings |-> warnings])

\* the _LEDGER_MAP literal of essential.py, clf.py, bionature.py, natures_aid.py,
\* nestle.py and tonyrefail.py
_LEDGER_MAP(postcode) ==
    CASE postcode = PC_CF10_1AE -> 5001
      [] postcode = PC_CF24_3LP -> 5002
      [] postcode = PC_CF11_9DX -> 5004
      [] OTHER -> NoAccount

\* ledger_account = MAP.get(postcode) if postcode else None
LedgerOf(postcode) == IF postcode # None THEN LEDGER_MAP(postcode) ELSE NoAccount
OwnLedgerOf(postcode) == IF postcode # None THEN _LEDGER_MAP(postcode) ELSE NoAccount

\* if not postcode: <not found>  elif ledger_account is None: f"<unknown>{postcode}"
PostcodeWarnings(postcode, ledger, notfound, unknown) ==
    IF postcode = None THEN <<Warning(notfound)>>
    ELSE IF ledger = NoAccount THEN <<WarningAbout(unknown, postcode)>>
    ELSE <<>>

\* if not invoice_date: warnings.append("Invoice date not found")
DateWarnings(invoice_date) == WarnIf(~invoice_date, "Invoice date not found")

(***************************************************************************)
(* app/parsers/essential.py                                                *)
(***************************************************************************)
\* essential.py and clf.py: _normalize_postcode
essential_normalize_postcode(raw) ==
    IF Len(Squeeze(raw)) <= 3 THEN Squeeze(raw) ELSE InsertSpace(Squeeze(raw))

EssentialPostcodeOf(match) ==
    IF match.matched THEN essential_normalize_postcode(match.g0) ELSE None

\* essential.py: _extract_postcode
essential_extract_postcode(s) == EssentialPostcodeOf(POSTCODE_RE_search(s))

EssentialWarnings(x, net_total, total, postcode, ledger) ==
    WarnIf(IsNone(x.vat_net) \/ IsNone(x.nonvat_net) \/ IsNone(x.vat_amount),
           "VAT analysis missing; using order totals")
    \o WarnIf(~IsNone(x.order_net)
              /\ ~approx_equal(OrZero(x.order_net), net_total, EssentialTolerance),
              "Order net does not match VAT analysis")
    \o WarnIf(~IsNone(x.order_total)
              /\ ~approx_equal(OrZero(x.order_total), total, EssentialTolerance),
              "Order total does not reconcile")
    \o WarnIf(postcode = None, "Deliver to postcode not found")
    \o WarnIf(ledger = NoAccount, "Ledger account not mapped for postcode")

\* total = order_total or round(net_total + (vat_amount or 0.0), 2)
EssentialTotal(order_total, net_total, vat_amount) ==
    OrElse(order_total, <<net_total + vat_amount>>)[1]

EssentialRecord(x, vat_net, nonvat_net, vat_amount, total) ==
    InvoiceData("Essential Trading", OrUnknown(x.invoice_number),
                DateOrEpoch(x.invoice_date), FALSE, x.postcode, OwnLedgerOf(x.postcode),
                vat_net, nonvat_net, vat_amount, total,
                EssentialWarnings(x, vat_net + nonvat_net, total, x.postcode,
                                  OwnLedgerOf(x.postcode)))

EssentialTotals(x, vat_net, nonvat_net, vat_amount) ==
    EssentialRecord(x, vat_net, nonvat_net, vat_amount,
                    EssentialTotal(x.order_total, vat_net + nonvat_net, vat_amount))

\* the fields the VAT analysis left None, derived from the order totals;
\* derived_vat_net = round(vat_amount / 0.2, 2)
EssentialDerive(x, vat_amount) ==
    EssentialTotals(x,
        IF ~IsNone(x.vat_net) THEN x.vat_net[1]
        ELSE IF ~IsNone(x.order_net) /\ vat_amount > 0 THEN 5 * vat_amount
        ELSE 0,
        IF ~IsNone(x.nonvat_net) THEN x.nonvat_net[1]
        ELSE IF IsNone(x.order_net) THEN 0
        ELSE IF vat_amount > 0 THEN x.order_net[1] - 5 * vat_amount
        ELSE x.order_net[1],
        vat_amount)

parse_essential(x) ==
    IF ~x.invoice_date THEN Raise("ValueError")
    ELSE EssentialDerive(x, IF ~IsNone(x.vat_amount) THEN x.vat_amount[1]
                            ELSE OrZero(x.order_vat))

(***************************************************************************)
(* app/parsers/clf.py                                                      *)
(***************************************************************************)
ClfKept(w) == w.msg \notin {"VAT net amount not found", "VAT amount not found"}
\* parse_clf without the filter: every warning stays
ClfDropNothing(warnings) == warnings

ClfDropNotFound(warnings) == SelectSeq(warnings, ClfKept)

\* if is_credit: the amounts become abs(); a credit with only a zero-rated
\* amount drops the two "not found" warnings.  The constructor gets max(x, 0.0).
ClfRecord(x, vat_net, nonvat_net, vat_amount, total, warnings) ==
    IF x.is_credit
    THEN InvoiceData("CLF", OrUnknown(x.invoice_number),
                DateOrEpoch(x.invoice_date), TRUE, x.postcode, OwnLedgerOf(x.postcode),
                     Max0(Abs(vat_net)), Max0(Abs(nonvat_net)),
                     Max0(Abs(vat_amount)), Max0(Abs(total)),
                     IF Abs(vat_net) = 0 /\ Abs(vat_amount) = 0 /\ Abs(nonvat_net) > 0
                     THEN ClfDropNotFound(warnings) ELSE warnings)
    ELSE InvoiceData("CLF", OrUnknown(x.invoice_number),
                DateOrEpoch(x.invoice_date), FALSE, x.postcode, OwnLedgerOf(x.postcode),
                     Max0(vat_net), Max0(nonvat_net), Max0(vat_amount), Max0(total),
                     warnings)

\* subtotal = vat_net + nonvat_net + vat_amount
\* total = total_incl_vat if total_incl_vat is not None else subtotal
\* if total_incl_vat is None and total_gbp is not None: total = total_gbp
ClfTotal(total_incl_vat, total_gbp, subtotal) ==
    IF ~IsNone(total_incl_vat) THEN total_incl_vat[1]
    ELSE IF ~IsNone(total_gbp) THEN total_gbp[1]
    ELSE subtotal

ClfReconcile(x, vat_net, nonvat_net, vat_amount, total_incl_vat) ==
    ( IF IsNone(total_incl_vat) /\ IsNone(x.total_gbp)
      THEN <<Warning("Total GBP Incl. VAT not found")>>
      ELSE WarnIf(~IsNone(total_incl_vat)
                  /\ ~approx_equal(vat_net + nonvat_net + vat_amount,
                                   OrZero(total_incl_vat), DefaultTolerance),
                  "Total GBP Incl. VAT does not reconcile") )
    \o WarnIf(~IsNone(x.total_excl_vat)
              /\ ~approx_equal(vat_net + nonvat_net, OrZero(x.total_excl_vat),
                               DefaultTolerance),
              "Total GBP Excl. VAT does not reconcile")
    \o WarnIf(~IsNone(x.totals_vat_amount)
              /\ ~isclose(vat_amount, OrZero(x.totals_vat_amount),
                          DefaultTolerance, x.close_at_tolerance),
              "VAT Amount does not reconcile")

\* the amounts still None become 0.0 with a warning each; then the totals
ClfDefaults(x, vat_net, nonvat_net, vat_amount, total_incl_vat, warnings) ==
    ClfRecord(x, OrZero(vat_net), OrZero(nonvat_net), OrZero(vat_amount),
              ClfTotal(total_incl_vat, x.total_gbp,
                       OrZero(vat_net) + OrZero(nonvat_net) + OrZero(vat_amount)),
              warnings
              \o WarnIf(IsNone(vat_net), "VAT net amount not found")
              \o WarnIf(IsNone(nonvat_net), "Non-VAT net amount not found")
              \o WarnIf(IsNone(vat_amount), "VAT amount not found")
              \o ClfReconcile(x, OrZero(vat_net), OrZero(nonvat_net),
                              OrZero(vat_amount), total_incl_vat))

\* parse_clf without the zero-VAT fallback: the amounts stay as they were found
ClfZeroVatNever(x, vat_net, nonvat_net, vat_amount, total_incl_vat, warnings) ==
    ClfDefaults(x, vat_net, nonvat_net, vat_amount, total_incl_vat, warnings)

\* Zero-VAT fallback: no amount found at all, but Total GBP exists
ClfZeroVat(x, vat_net, nonvat_net, vat_amount, total_incl_vat, warnings) ==
    IF IsNone(vat_net) /\ IsNone(nonvat_net) /\ IsNone(vat_amount) /\ ~IsNone(x.total_gbp)
    THEN ClfDefaults(x, <<0>>, x.total_gbp, <<0>>, x.total_gbp, warnings)
    ELSE ClfDefaults(x, vat_net, nonvat_net, vat_amount, total_incl_vat, warnings)

\* if vat_net is None or nonvat_net is None or vat_amount is None: the amounts
\* still None are taken from _extract_vat_breakdown
ClfBreakdown(x, vat_net, nonvat_net, vat_amount, total_incl_vat, warnings) ==
    ClfZeroVat(x, IfNone(vat_net, x.vat_net_from_breakdown),
               IfNone(nonvat_net, x.nonvat_net_from_breakdown),
               IfNone(vat_amount, x.vat_amount_from_breakdown),
               total_incl_vat, warnings)

\* a VAT amount that disagrees with the two totals is replaced by their difference
ClfOverride(x, vat_net, nonvat_net, vat_amount, total_incl_vat, warnings) ==
    IF /\ ~IsNone(x.total_excl_vat) /\ ~IsNone(total_incl_vat) /\ ~IsNone(vat_amount)
       /\ ~isclose(OrZero(vat_amount),
                   OrZero(total_incl_vat) - OrZero(x.total_excl_vat),
                   DefaultTolerance, x.close_at_tolerance)
    THEN ClfBreakdown(x, vat_net, nonvat_net,
                      <<total_incl_vat[1] - x.total_excl_vat[1]>>, total_incl_vat,
                      warnings \o <<Warning("VAT amount overridden from totals")>>)
    ELSE ClfBreakdown(x, vat_net, nonvat_net, vat_amount, total_incl_vat, warnings)

\* no net amount found but Total GBP Excl. VAT: the net is that total, on the
\* VAT side when there is VAT
ClfSplitExcl(x, vat_amount, total_incl_vat, warnings) ==
    IF ~IsNone(vat_amount) /\ vat_amount[1] > 0
    THEN ClfOverride(x, x.total_excl_vat, <<0>>, vat_amount, total_incl_vat, warnings)
    ELSE ClfOverride(x, <<0>>, x.total_excl_vat, vat_amount, total_incl_vat, warnings)

ClfFromExcl(x, vat_amount, total_incl_vat, warnings) ==
    IF IsNone(x.vat_net) /\ IsNone(x.nonvat_net) /\ ~IsNone(x.total_excl_vat)
    THEN ClfSplitExcl(x,
                      IF IsNone(vat_amount) /\ ~IsNone(total_incl_vat)
                      THEN <<total_incl_vat[1] - x.total_excl_vat[1]>>
                      ELSE vat_amount,
                      total_incl_vat, warnings)
    ELSE ClfOverride(x, x.vat_net, x.nonvat_net, vat_amount, total_incl_vat, warnings)

\* total_incl_vat = total_incl_vat or _extract_total_gbp_incl_vat(text)
\* if total_incl_vat is None and vat_section_total is not None: ...
ClfTotalIncl(x) ==
    IfNone(OrElse(x.total_incl_vat, x.total_gbp_incl_vat), x.vat_section_total)

parse_clf(x) ==
    ClfFromExcl(x, IfNone(x.vat_amount, x.totals_vat_amount), ClfTotalIncl(x),
                PostcodeWarnings(x.postcode, OwnLedgerOf(x.postcode),
                                 "Deliver To postcode not found",
                                 "Unknown Deliver To postcode: ")
                \o DateWarnings(x.invoice_date))

(***************************************************************************)
(* The other extractors.  Each ends with the same check,                   *)
(*   if not approx_equal(vat_net + nonvat_net + vat_amount, total): ...    *)
(* on the values it puts in the record.                                    *)
(***************************************************************************)
Reconcile(sum, total) ==
    WarnIf(~approx_equal(sum, total, DefaultTolerance),
           "Totals do not reconcile (net + vat != total)")

\* nonvat_net = round(max(total - vat_net - vat_amount, 0.0), 2)
Remainder(total, vat_net, vat_amount) == Max0(total - vat_net - vat_amount)

\* app/parsers/hunts.py: _parse_section, from the postcode on
HuntsRecord(x, vat_net, nonvat_net, vat_amount, total, warnings) ==
    InvoiceData("Hunts", OrUnknown(x.invoice_number),
                DateOrEpoch(x.invoice_date), x.is_credit, x.postcode, LedgerOf(x.postcode),
                vat_net, nonvat_net, vat_amount, total,
                warnings \o Reconcile(vat_net + nonvat_net + vat_amount, total))

HuntsAmounts(x, vat_net, nonvat_net, vat_amount, total, warnings) ==
    HuntsRecord(x, vat_net, nonvat_net, vat_amount,
                IF IsNone(total) THEN vat_net + nonvat_net + vat_amount ELSE total[1],
                warnings)

\* _extract_vat_analysis of hunts.py.  x.zero_row and x.rate_row are the net and
\* the VAT of the "n ZERO net vat" and "n 20.00% net vat" lines of the text and
\* x.total_line the amount of the line with the account number.  The patterns
\* capture ([\d.,]+) only, so a line with a signed amount does not match.
Unsigned(amounts) == amounts # NoAmount /\ \A k \in 1..Len(amounts) : amounts[k] >= 0

NetOf(row) == IF Unsigned(row) THEN row[1] ELSE 0
VatOf(row) == IF Unsigned(row) THEN row[2] ELSE 0

_extract_vat_analysis(x) ==
    IF ~Unsigned(x.zero_row) /\ ~Unsigned(x.rate_row)
    THEN [vat_net |-> NoAmount, nonvat_net |-> NoAmount, vat_amount |-> NoAmount,
          total |-> NoAmount]
    ELSE [vat_net |-> <<NetOf(x.rate_row)>>, nonvat_net |-> <<NetOf(x.zero_row)>>,
          vat_amount |-> <<VatOf(x.zero_row) + VatOf(x.rate_row)>>,
          total |-> IF Unsigned(x.total_line) THEN x.total_line ELSE NoAmount]

HuntsAnalysed(x, a) ==
    HuntsAmounts(x, OrZero(a.vat_net), OrZero(a.nonvat_net), OrZero(a.vat_amount), a.total,
                 PostcodeWarnings(x.postcode, LedgerOf(x.postcode),
                                  "Deliver To postcode not found",
                                  "Unknown Deliver To postcode: ")
                 \o DateWarnings(x.invoice_date)
                 \o WarnIf(IsNone(a.vat_net), "VAT net amount not found")
                 \o WarnIf(IsNone(a.vat_amount), "VAT amount not found")
                 \o WarnIf(IsNone(a.total), "Total amount not found"))

_parse_section(x) == HuntsAnalysed(x, _extract_vat_analysis(x))

\* app/parsers/viridian.py
ViridianRecord(x, vat_net, nonvat_net, vat_amount, total, warnings) ==
    InvoiceData("Viridian", OrUnknown(x.invoice_number),
                DateOrEpoch(x.invoice_date), FALSE, x.postcode, LedgerOf(x.postcode),
                vat_net, nonvat_net, vat_amount, total,
                warnings \o Reconcile(vat_net + nonvat_net + vat_amount, total))

\* if nonvat_net is None: nonvat_net = round(max(total - vat_net - vat_amount, 0.0), 2)
ViridianAmounts(x, vat_net, nonvat_net, vat_amount, total) ==
    ViridianRecord(x, OrZero(vat_net),
                   IF IsNone(nonvat_net)
                   THEN Remainder(total, OrZero(vat_net), OrZero(vat_amount))
                   ELSE nonvat_net[1],
                   OrZero(vat_amount), total,
                   PostcodeWarnings(x.postcode, LedgerOf(x.postcode),
                                    "Deliver To postcode not found",
                                    "Unknown Deliver To postcode: ")
                   \o DateWarnings(x.invoice_date)
                   \o WarnIf(IsNone(x.total), "Total amount not found")
                   \o WarnIf(IsNone(vat_net), "VAT net amount not found")
                   \o WarnIf(IsNone(vat_amount), "VAT amount not found"))

\* a line of the text: what it says and what parse_money finds in it (the
\* digit of a tax code counts as a number: parse_money("T1") is 1.00)
Line(content, money) == [text |-> content, money |-> money]

Heading(label) == Line(label, NoAmount)

\* the column headings; the pound sign of the last two is written GBP here
TaxCodeHeading == "Tax Code"

RateHeading == "VAT %"

NetHeading == "Net (GBP)"

VatHeading == "VAT (GBP)"

\* the stop test of _collect_after: the pattern's alternatives for the net
\* and the VAT headings are written with doubled backslashes in a raw
\* string, so they ask for a literal backslash and match neither heading
CollectStops(line) == line.text \in {TaxCodeHeading, RateHeading}

RECURSIVE CollectValues(_)
CollectValues(lines) ==
    IF lines = <<>> \/ CollectStops(Head(lines)) THEN <<>>
    ELSE <<Head(lines)>> \o CollectValues(Tail(lines))

LabelIndexes(section, label) == {i \in 1..Len(section) : section[i].text = label}

FirstIndex(indexes) == CHOOSE i \in indexes : \A j \in indexes : i <= j

_collect_after(section, label) ==
    IF LabelIndexes(section, label) = {} THEN <<>>
    ELSE CollectValues(SubSeq(section, FirstIndex(LabelIndexes(section, label)) + 1,
                              Len(section)))

\* (rate is not None and rate > 0) or code.upper().startswith("T1")
IsStandardRated(idx, vat_rates, tax_codes) ==
    \/ idx <= Len(vat_rates) /\ ~IsNone(vat_rates[idx].money) /\ vat_rates[idx].money[1] > 0
    \/ idx <= Len(tax_codes) /\ tax_codes[idx].text = "T1"

\* the loop over net_values from index idx on: the sum of the values that
\* are numbers and are standard rated (standard TRUE) or not (standard FALSE)
RECURSIVE NetSum(_, _, _, _, _)
NetSum(net_values, vat_rates, tax_codes, idx, standard) ==
    IF idx > Len(net_values) THEN 0
    ELSE NetSum(net_values, vat_rates, tax_codes, idx + 1, standard)
         + (IF /\ ~IsNone(net_values[idx].money)
               /\ IsStandardRated(idx, vat_rates, tax_codes) = standard
            THEN net_values[idx].money[1] ELSE 0)

RECURSIVE MoneySum(_)
MoneySum(values) ==
    IF values = <<>> THEN 0 ELSE OrZero(Head(values).money) + MoneySum(Tail(values))

NoAnalysis == [vat_net |-> NoAmount, nonvat_net |-> NoAmount, vat_amount |-> NoAmount]

SectionSums(tax_codes, vat_rates, net_values, vat_values) ==
    [vat_net |-> <<NetSum(net_values, vat_rates, tax_codes, 1, TRUE)>>,
     nonvat_net |-> <<NetSum(net_values, vat_rates, tax_codes, 1, FALSE)>>,
     vat_amount |-> <<MoneySum(vat_values)>>]

\* _extract_vat_analysis of viridian.py; lines holds the "VAT Analysis" line
\* and the non-empty lines after it up to the first "Terms:", "Goods Net:",
\* "Delivery:", "Order Net:" or "Total:" line, and is empty without the heading
viridian_extract_vat_analysis(lines) ==
    IF lines = <<>> THEN NoAnalysis
    ELSE SectionSums(_collect_after(Tail(lines), TaxCodeHeading),
                     _collect_after(Tail(lines), RateHeading),
                     _collect_after(Tail(lines), NetHeading),
                     _collect_after(Tail(lines), VatHeading))

\* without a VAT analysis the net and the VAT are the sums of the money lists
ViridianAnalysed(x, analysis) ==
    IF IsNone(analysis.vat_net) \/ IsNone(analysis.nonvat_net) \/ IsNone(analysis.vat_amount)
    THEN ViridianAmounts(x, x.net_values, analysis.nonvat_net, x.vat_values, OrZero(x.total))
    ELSE ViridianAmounts(x, analysis.vat_net, analysis.nonvat_net, analysis.vat_amount,
                         OrZero(x.total))

parse_viridian(x) == ViridianAnalysed(x, viridian_extract_vat_analysis(x.vat_analysis))

\* app/parsers/watson_pratt.py; _extract_vat_net never returns None
WatsonPrattRecord(x, subtotal, vat_net, vat_amount, total) ==
    InvoiceData("Watson & Pratt", OrUnknown(x.invoice_number),
                DateOrEpoch(x.invoice_date), FALSE, x.postcode, LedgerOf(x.postcode),
                vat_net, Max0(subtotal - vat_net), vat_amount, total,
                PostcodeWarnings(x.postcode, LedgerOf(x.postcode),
                                 "Deliver To postcode not found",
                                 "Unknown Deliver To postcode: ")
                \o DateWarnings(x.invoice_date)
                \o WarnIf(IsNone(x.subtotal), "Subtotal not found")
                \o WarnIf(IsNone(x.vat_amount), "VAT amount not found")
                \o WarnIf(IsNone(x.total), "Total amount not found")
                \o Reconcile(vat_net + Max0(subtotal - vat_net) + vat_amount, total))

parse_watson_pratt(x) ==
    WatsonPrattRecord(x, OrZero(x.subtotal), OrZero(x.vat_net), OrZero(x.vat_amount),
                      IF IsNone(x.total) THEN OrZero(x.subtotal) + OrZero(x.vat_amount)
                      ELSE x.total[1])

\* app/parsers/avogel.py
AvogelRecord(x, vat_net, nonvat_net, vat_amount, total) ==
    InvoiceData("A.Vogel", OrUnknown(x.invoice_number),
                DateOrEpoch(x.invoice_date), FALSE, x.postcode, LedgerOf(x.postcode),
                vat_net, nonvat_net, vat_amount, total,
                PostcodeWarnings(x.postcode, LedgerOf(x.postcode),
                                 "Deliver To postcode not found",
                                 "Unknown Deliver To postcode: ")
                \o DateWarnings(x.invoice_date)
                \o WarnIf(IsNone(x.standard_net), "VAT net amount not found")
                \o WarnIf(IsNone(x.vat_amount), "VAT amount not found")
                \o WarnIf(IsNone(x.total) /\ IsNone(x.subtotal), "Total amount not found")
                \o Reconcile(vat_net + nonvat_net + vat_amount, total))

parse_avogel(x) ==
    AvogelRecord(x, OrZero(x.standard_net), OrZero(x.zero_net), OrZero(x.vat_amount),
                 IF ~IsNone(x.total) THEN x.total[1]
                 ELSE IF ~IsNone(x.subtotal) THEN x.subtotal[1] + OrZero(x.vat_amount)
                 ELSE OrZero(x.standard_net) + OrZero(x.zero_net) + OrZero(x.vat_amount))

\* app/parsers/biocare.py
BiocareRecord(x, vat_net, nonvat_net, vat_amount, total) ==
    InvoiceData("BioCare", OrUnknown(x.invoice_number),
                DateOrEpoch(x.invoice_date), FALSE, x.postcode, LedgerOf(x.postcode),
                vat_net, nonvat_net, vat_amount, total,
                PostcodeWarnings(x.postcode, LedgerOf(x.postcode),
                                 "Delivery postcode not found",
                                 "Unknown delivery postcode: ")
                \o DateWarnings(x.invoice_date)
                \o WarnIf(IsNone(x.vat_net), "VAT net (GOODS SUBTOTAL) not found")
                \o WarnIf(IsNone(x.vat_amount), "VAT amount not found")
                \o WarnIf(IsNone(x.total), "Invoice total not found")
                \o Reconcile(vat_net + nonvat_net + vat_amount, total))

parse_biocare(x) ==
    BiocareRecord(x, OrZero(x.vat_net), OrZero(x.nonvat_net), OrZero(x.vat_amount),
                  IF ~IsNone(x.total) THEN x.total[1]
                  ELSE OrZero(x.vat_net) + OrZero(x.nonvat_net) + OrZero(x.vat_amount))

\* emporio.py, kinetic.py, lewtress.py, pestokill.py: a net, a VAT amount and a
\* total; the check is on net + vat_amount
NetTotal(x, net) == IF IsNone(x.total) THEN OrZero(net) + OrZero(x.vat_amount) ELSE x.total[1]

NetWarnings(x, net, nonet, nototal) ==
    DateWarnings(x.invoice_date)
    \o WarnIf(IsNone(net), nonet)
    \o WarnIf(IsNone(x.vat_amount), "VAT amount not found")
    \o WarnIf(IsNone(x.total), nototal)
    \o Reconcile(OrZero(net) + OrZero(x.vat_amount), NetTotal(x, net))

parse_emporio(x) ==
    InvoiceData("Emporio", OrUnknown(x.invoice_number),
                DateOrEpoch(x.invoice_date), FALSE, x.postcode, LedgerOf(x.postcode),
                OrZero(x.net), 0, OrZero(x.vat_amount), NetTotal(x, x.net),
                PostcodeWarnings(x.postcode, LedgerOf(x.postcode),
                                 "Postcode not found", "Unknown postcode: ")
                \o NetWarnings(x, x.net, "Net amount not found", "Invoice total not found"))

parse_kinetic(x) ==
    InvoiceData("Kinetic Enterprises Ltd", OrUnknown(x.invoice_number),
                DateOrEpoch(x.invoice_date), FALSE, x.postcode, LedgerOf(x.postcode),
                OrZero(x.vat_net), 0, OrZero(x.vat_amount), NetTotal(x, x.vat_net),
                PostcodeWarnings(x.postcode, LedgerOf(x.postcode),
                                 "Delivery postcode not found",
                                 "Unknown delivery postcode: ")
                \o NetWarnings(x, x.vat_net, "Net total not found", "Invoice total not found"))

parse_lewtress(x) ==
    InvoiceData("Lewtress Natural Health Ltd", OrUnknown(x.invoice_number),
                DateOrEpoch(x.invoice_date), FALSE, x.postcode, LedgerOf(x.postcode),
                0, OrZero(x.net), OrZero(x.vat_amount), NetTotal(x, x.net),
                PostcodeWarnings(x.postcode, LedgerOf(x.postcode),
                                 "Delivery postcode not found",
                                 "Unknown delivery postcode: ")
                \o NetWarnings(x, x.net, "Net amount not found", "Total not found"))

parse_pestokill(x) ==
    InvoiceData("Pestokill", OrUnknown(x.invoice_number),
                DateOrEpoch(x.invoice_date), FALSE, x.postcode, LedgerOf(x.postcode),
                OrZero(x.net), 0, OrZero(x.vat_amount), NetTotal(x, x.net),
                PostcodeWarnings(x.postcode, LedgerOf(x.postcode),
                                 "Store not identified from Customer Ref or postcode",
                                 "Unknown postcode: ")
                \o NetWarnings(x, x.net, "Net amount not found", "Total not found"))

\* bionature.py, natures_aid.py, nestle.py, tonyrefail.py: _normalize_postcode
\* and _extract_postcode
bionature_normalize_postcode(raw) ==
    IF raw = <<>> THEN None ELSE NormalizeSqueezed(Squeeze(raw))

BionaturePostcodeOf(match) ==
    IF match.matched THEN bionature_normalize_postcode(match.g0) ELSE None

bionature_extract_postcode(s) == BionaturePostcodeOf(POSTCODE_RE_search(s))

\* bionature.py, natures_plus.py, nestle.py, natures_aid.py: a VAT net, a VAT
\* amount and a total; the zero-rated net is what is left of the total
VatWarnings(x) ==
    DateWarnings(x.invoice_date)
    \o WarnIf(IsNone(x.vat_net), "VAT net amount not found")
    \o WarnIf(IsNone(x.vat_amount), "VAT amount not found")
    \o WarnIf(IsNone(x.total), "Total amount not found")

VatTotal(x) == IF IsNone(x.total) THEN OrZero(x.vat_net) + OrZero(x.vat_amount) ELSE x.total[1]

VatRecord(x, supplier, ledger, vat_net, nonvat_net, vat_amount, total) ==
    InvoiceData(supplier, OrUnknown(x.invoice_number),
                DateOrEpoch(x.invoice_date), FALSE, x.postcode, ledger, vat_net, nonvat_net, vat_amount, total,
                PostcodeWarnings(x.postcode, ledger, "Deliver To postcode not found",
                                 "Unknown Deliver To postcode: ")
                \o VatWarnings(x)
                \o Reconcile(vat_net + nonvat_net + vat_amount, total))

VatRemainder(x, supplier, ledger) ==
    VatRecord(x, supplier, ledger, OrZero(x.vat_net),
              Remainder(VatTotal(x), OrZero(x.vat_net), OrZero(x.vat_amount)),
              OrZero(x.vat_amount), VatTotal(x))

parse_bionature(x) == VatRemainder(x, "Bio-Nature", OwnLedgerOf(x.postcode))

parse_natures_plus(x) == VatRemainder(x, "Natures Plus", LedgerOf(x.postcode))

parse_nestle(x) == VatRemainder(x, "Nestle", OwnLedgerOf(x.postcode))

\* if split_vat_net is not None and split_nonvat_net is not None: the split of
\* the lines replaces the VAT net
parse_natures_aid(x) ==
    IF ~IsNone(x.split_vat_net) /\ ~IsNone(x.split_nonvat_net)
    THEN VatRecord(x, "Natures Aid", OwnLedgerOf(x.postcode), x.split_vat_net[1],
                   x.split_nonvat_net[1], OrZero(x.vat_amount), VatTotal(x))
    ELSE VatRemainder(x, "Natures Aid", OwnLedgerOf(x.postcode))

\* app/parsers/tonyrefail.py: everything is zero-rated
parse_tonyrefail(x) ==
    InvoiceData("Tonyrefail Apiary", OrUnknown(x.invoice_number),
                DateOrEpoch(x.invoice_date), FALSE, x.postcode, OwnLedgerOf(x.postcode),
                0, OrZero(x.total), 0, OrZero(x.total),
                PostcodeWarnings(x.postcode, OwnLedgerOf(x.postcode),
                                 "Deliver To postcode not found",
                                 "Unknown Deliver To postcode: ")
                \o DateWarnings(x.invoice_date)
                \o WarnIf(IsNone(x.total), "Total amount not found")
                \o Reconcile(0 + OrZero(x.total) + 0, OrZero(x.total)))

(***************************************************************************)
(* app/clf.py: the parse_clf of the module beside app/parsers/clf.py       *)
(***************************************************************************)
\* _normalise_uk_postcode: f"{outward} {inward}" of the first match in
\* raw.upper(); its ValueError is caught by parse_clf, which then has no postcode
NormalisedGroups(match) ==
    IF match.matched THEN Upper(match.g1) \o <<" ">> \o Upper(match.g2) ELSE None

_normalise_uk_postcode(raw) == NormalisedGroups(POSTCODE_RE_search(Upper(raw)))

\* the warnings of the "Deliver To" part; _POSTCODE_TO_LEDGER has the entries
\* of _LEDGER_MAP
DeliverToWarnings(deliver_to, postcode) ==
    IF deliver_to = <<>> THEN <<Warning("Deliver To block not found")>>
    ELSE IF postcode = None
    THEN <<Warning("Could not find/parse a UK postcode in Deliver To block")>>
    ELSE IF _LEDGER_MAP(postcode) = NoAccount
    THEN <<WarningAbout("Deliver To postcode not recognised for ledger mapping", postcode)>>
    ELSE <<>>

\* if total > 0: calc_total = vat_net + nonvat_net + vat_amount ...
AmountWarnings(x, vat_net, nonvat_net, vat_amount, total) ==
    WarnIf(total <= 0, "Total missing or zero")
    \o WarnIf(IsNone(x.vat_amount), "VAT amount not found (parsed as 0.00)")
    \o WarnIf(IsNone(x.vat_net), "VAT-able net not found (parsed as 0.00)")
    \o WarnIf(IsNone(x.nonvat_net), "Non-VAT net not found (parsed as 0.00)")
    \o WarnIf(total > 0 /\ ~approx_equal(vat_net + nonvat_net + vat_amount, total,
                                         DefaultTolerance),
              "Reconciliation: vat_net+nonvat_net+vat_amount != total")

DeliverToRecord(x, postcode, vat_net, nonvat_net, vat_amount, total) ==
    InvoiceData("CLF Distribution", x.invoice_number,
                IF x.invoice_date THEN FoundDate ELSE NoDate, FALSE,
                postcode, OwnLedgerOf(postcode), vat_net, nonvat_net, vat_amount, total,
                DeliverToWarnings(x.deliver_to, postcode)
                \o AmountWarnings(x, vat_net, nonvat_net, vat_amount, total))

\* raises when no invoice number or no invoice date line is found; a date line
\* that parse_date cannot read fails at invoice_date + timedelta(...) or in
\* the constructor
app_clf_parse_clf(x) ==
    IF x.invoice_number = "" THEN Raise("ValueError")
    ELSE IF ~x.invoice_date_raw THEN Raise("ValueError")
    ELSE IF ~x.invoice_date /\ x.terms_days THEN Raise("TypeError")
    ELSE DeliverToRecord(x, IF x.deliver_to = <<>> THEN None
                            ELSE _normalise_uk_postcode(x.deliver_to),
                         OrZero(x.vat_net), OrZero(x.nonvat_net),
                         OrZero(x.vat_amount), OrZero(x.total))

(***************************************************************************)
(* The extractors applied to bounded inputs.  An input is what the         *)
(* extractor's helpers return on a text: the delivery postcode of one of   *)
(* the addresses of Texts(1), whether a date was found, and the amounts.   *)
(***************************************************************************)
Some(S) == {<<v>> : v \in S}
Optional(S) == {NoAmount} \cup Some(S)

(***************************************************************************)
(* The extractors that isolate a delivery block before looking for the     *)
(* postcode: clf.py, biocare.py, viridian.py, natures_plus.py              *)
(***************************************************************************)
\* the line of the label ("Deliver To", "Delivery Address", "Ship To") and the
\* end of the block (the blank line, "Qty Code", "Invoice Details")
LabelLine == <<"\n", "T", "o", ":", "\n">>

BlockEnd == <<"\n", "\n">>

WholeText(d) ==
    IF d.labelled THEN d.before \o LabelLine \o d.block \o BlockEnd \o d.after
    ELSE d.before

\* group(1).strip() of the block pattern, None without the label
BlockOf(d) == IF d.labelled THEN Strip(d.block) ELSE None

\* clf.py: if deliver_block: postcode_match = _POSTCODE_RE.search(deliver_block)
ClfBlockPostcode(deliver_block) ==
    IF deliver_block = None \/ deliver_block = <<>> THEN None
    ELSE EssentialPostcodeOf(POSTCODE_RE_search(deliver_block))

\* the keys of _LEDGER_MAP in the order of the dict
KnownOrder == <<PC_CF10_1AE, PC_CF24_3LP, PC_CF11_9DX>>

KnownIn(normalized) ==
    {k \in 1..Len(KnownOrder) : Contains(normalized, RemoveSpaces(KnownOrder[k]))}

FirstKnownIn(known) == IF known = {} THEN None ELSE KnownOrder[MinOf(known)]

\* clf.py: normalized = re.sub(r"\s+", "", text.upper()); the first key of
\* _LEDGER_MAP that occurs in it without its space
_find_known_postcode(s) == FirstKnownIn(KnownIn(RemoveWhitespace(Upper(s))))

BackslashAt(s) == {i \in 1..Len(s) : s[i] = "\\"}

\* clf.py: the pattern r"Deliver\\s*To" asks for a backslash after "Deliver",
\* so only a line with a backslash can start the scan of the next lines
_extract_postcode_from_lines(s) ==
    IF BackslashAt(s) = {} THEN None
    ELSE EssentialPostcodeOf(PostcodeSearchFrom(s, MinOf(BackslashAt(s))))

PostcodeOr(postcode, other) == IF postcode # None /\ postcode # <<>> THEN postcode ELSE other

\* clf.py: the block, then a known postcode anywhere, then the lines
ClfDeliverTo(d) ==
    PostcodeOr(ClfBlockPostcode(BlockOf(d)),
           PostcodeOr(_find_known_postcode(WholeText(d)),
                  _extract_postcode_from_lines(WholeText(d))))

BiocareGroups(match) ==
    IF match.matched THEN normalize_postcode(match.g1 \o match.g2) ELSE None

\* biocare.py: the section is everything after "Delivery Address"
DeliverySection(d) == IF d.labelled THEN d.block \o BlockEnd \o d.after ELSE <<>>

\* biocare.py: the first postcode of the section, else the first known
\* postcode of the whole text
_extract_delivery_postcode(d) ==
    PostcodeOr(BiocareGroups(POSTCODE_RE_search(DeliverySection(d))),
           FirstKnown(NormalizedCandidates(WholeText(d))))

BlockOrEmpty(block) == IF block = None THEN <<>> ELSE block

\* viridian.py: extract_delivery_postcode(deliver_block or "") or
\* extract_delivery_postcode(text or "")
ViridianDeliveryPostcode(d) ==
    PostcodeOr(extract_delivery_postcode(BlockOrEmpty(BlockOf(d))),
           extract_delivery_postcode(WholeText(d)))

\* natures_plus.py: the postcode of the "Ship To" block, else of the text
_extract_ship_to_postcode(d) ==
    PostcodeOr(extract_delivery_postcode(BlockOrEmpty(BlockOf(d))),
           extract_delivery_postcode(WholeText(d)))

\* what the three ways of finding a postcode return on the addresses
SharedPostcodes == {extract_delivery_postcode(t) : t \in Texts(1)}
EssentialPostcodes == {essential_extract_postcode(t) : t \in Texts(1)}
BionaturePostcodes == {bionature_extract_postcode(t) : t \in Texts(1)}

\* the pieces of an address: nothing, a store, a store in lower case without
\* separator, another postcode, a tab inside, another postcode before a store
BeforePieces == {<<>>, PC_CF10_1AE, <<"S", "O", "1", "6", " ", "0", "Y", "S">>}

BlockPieces ==
    { <<>>, <<"c", "f", "2", "4", "3", "L", "P">>,
      <<"S", "O", "1", "6", " ", "0", "Y", "S">>,
      <<"C", "F", "1", "1", "\t", "9", "D", "X">>,
      <<"S", "O", "1", "6", " ", "0", "Y", "S", "\n">> \o PC_CF10_1AE }

AfterPieces == {<<>>, PC_CF10_1AE}

DeliveryDocuments ==
    {[NoDocument EXCEPT !.before = b] : b \in BeforePieces}
    \cup {[labelled |-> TRUE, before |-> b, block |-> k, after |-> a] :
            b \in BeforePieces, k \in BlockPieces, a \in AfterPieces}

\* the texts that are a label and its block
BlockDocuments == {d \in DeliveryDocuments : d.labelled /\ d.before = <<>> /\ d.after = <<>>}

Located(f, d, pc) == [f EXCEPT !.document = d, !.postcode = pc]

\* what each extractor's postcode steps return on each document
ClfPostcodes == [d \in DeliveryDocuments |-> ClfDeliverTo(d)]

BiocarePostcodes == [d \in DeliveryDocuments |-> _extract_delivery_postcode(d)]

ViridianPostcodes == [d \in DeliveryDocuments |-> ViridianDeliveryPostcode(d)]

NaturesPlusPostcodes == [d \in DeliveryDocuments |-> _extract_ship_to_postcode(d)]

\* totals in pence: equal to 1000 + 200 or 1000 + 2000 + 200, 2 or 3 pence off,
\* below the net, and far off
Totals == {900, 1200, 1202, 1203, 3200, 3203, 10000}

\* what the pattern of _extract_invoice_number captured, "" without a match
InvoiceNumbers == {"", "INV1"}

Found(postcodes) ==
    {[NoInput EXCEPT !.postcode = pc, !.invoice_date = d, !.invoice_number = n] :
        pc \in postcodes, d \in BOOLEAN, n \in InvoiceNumbers}

\* _extract_vat_analysis of essential.py: the T0 line gives nonvat_net, the T1
\* line vat_net and vat_amount; the "Net" and "VAT" columns give them in order
EssentialAnalyses ==
    { <<NoAmount, NoAmount, NoAmount>>, <<NoAmount, <<2000>>, NoAmount>>,
      <<<<1000>>, NoAmount, <<200>>>>, <<<<1000>>, <<2000>>, <<200>>>>,
      <<<<1000>>, <<2000>>, NoAmount>>, <<NoAmount, <<2000>>, <<200>>>> }

EssentialInputs ==
    {[f EXCEPT !.vat_net = a[1], !.nonvat_net = a[2], !.vat_amount = a[3],
               !.order_net = n, !.order_vat = v, !.order_total = t] :
        f \in Found(EssentialPostcodes), a \in EssentialAnalyses,
        n \in Optional({500, 3000}), v \in Optional({200}),
        t \in Optional({0, 3200, 10000})}

\* _extract_totals_block of clf.py maps the money lines after the last label in
\* order: Excl. VAT, VAT amount, Incl. VAT
ClfTotalsBlocks ==
    { <<NoAmount, NoAmount, NoAmount>>, <<<<6000>>, NoAmount, NoAmount>>,
      <<<<6000>>, <<1000>>, NoAmount>>, <<<<6000>>, <<1000>>, <<7000>>>>,
      <<<<6000>>, <<1002>>, <<7000>>>>, <<<<6000>>, <<1003>>, <<7000>>>>,
      <<<<7000>>, <<1000>>, <<6000>>>>, <<<<-6000>>, <<-1000>>, <<-7000>>>> }

\* what math.isclose answers at the tolerance, where a VAT amount is that far
\* from the difference of the totals
ClfBlocksAtTolerance ==
    {<<b, TRUE>> : b \in ClfTotalsBlocks}
    \cup {<<b, FALSE>> : b \in {c \in ClfTotalsBlocks : c[2] = <<1002>>}}

\* _extract_vat_breakdown: an S line gives vat_net and vat_amount, a Z line nonvat_net
\* (_MONEY_CAPTURE_RE takes a sign: the lines of a credit note may be negative)
ClfBreakdowns ==
    { <<NoAmount, NoAmount, NoAmount>>, <<<<5000>>, NoAmount, <<1000>>>>,
      <<NoAmount, <<1000>>, NoAmount>>, <<<<5000>>, <<1000>>, <<1000>>>>,
      <<<<-5000>>, <<-1000>>, <<-1000>>>> }

\* the Total line of the VAT section is found by _extract_vat_section_total and
\* by _extract_total_gbp_incl_vat alike
ClfInclLines == { <<NoAmount, NoAmount>>, <<<<7000>>, NoAmount>>, <<<<7000>>, <<7000>>>> }

\* a "Total GBP Incl. VAT" line with its amount is a "Total GBP" line too:
\* _extract_total_gbp finds an amount whenever the other helper found one there
ClfTotalLines ==
    {<<i, t>> : i \in ClfInclLines, t \in Optional({7000, 10000, -7000})}
    \ {<<<<<<7000>>, NoAmount>>, NoAmount>>}

ClfAmounts ==
    {[NoInput EXCEPT !.vat_net = vn, !.nonvat_net = nn, !.vat_amount = va,
                     !.total_gbp = g[2],
                     !.total_gbp_incl_vat = g[1][1], !.vat_section_total = g[1][2]] :
        vn \in Optional({5000}), nn \in Optional({1000}), va \in Optional({1000}),
        g \in ClfTotalLines}

ClfInputs ==
    {[a EXCEPT !.document = d, !.postcode = ClfPostcodes[d], !.is_credit = c,
               !.invoice_date = (ClfPostcodes[d] # None),
               !.invoice_number = n, !.close_at_tolerance = b[2],
               !.total_excl_vat = b[1][1], !.totals_vat_amount = b[1][2],
               !.total_incl_vat = b[1][3],
               !.vat_net_from_breakdown = k[1], !.nonvat_net_from_breakdown = k[2],
               !.vat_amount_from_breakdown = k[3]] :
        a \in ClfAmounts, d \in BlockDocuments, c \in BOOLEAN,
        n \in InvoiceNumbers, b \in ClfBlocksAtTolerance, k \in ClfBreakdowns}
    \cup {Located(f, d, ClfPostcodes[d]) : f \in Found({None}), d \in DeliveryDocuments}

\* the VAT analysis lines of a Hunts text: no line, or a line with its amounts
\* as printed, which on a credit note may carry a minus sign
HuntsInputs ==
    {[f EXCEPT !.is_credit = c, !.zero_row = z, !.rate_row = r, !.total_line = t] :
        f \in Found(SharedPostcodes), c \in BOOLEAN,
        z \in {NoAmount, <<2000, 0>>, <<-2000, 0>>},
        r \in {NoAmount, <<1000, 200>>, <<1000, 0>>, <<-1000, -200>>},
        t \in Optional(Totals \cup {-1200})}

\* a row of the VAT Analysis table: tax code, rate, net, VAT
AnalysisRows == {<<"T1", 2000, 1000, 200>>, <<"T0", 0, 2000, 0>>}

MaxRows == 2

AnalysisTables == UNION {[1..n -> AnalysisRows] : n \in 0..MaxRows}

CodeLine(code) == Line(code, IF code = "T1" THEN <<100>> ELSE <<0>>)

Column(rows, k) ==
    [i \in 1..Len(rows) |-> IF k = 1 THEN CodeLine(rows[i][1])
                                     ELSE Line("number", <<rows[i][k]>>)]

\* the section as the PDF text has it: each heading followed by its column
ColumnMajor(rows) ==
    <<Heading("VAT Analysis"), Heading(TaxCodeHeading)>> \o Column(rows, 1)
    \o <<Heading(RateHeading)>> \o Column(rows, 2)
    \o <<Heading(NetHeading)>> \o Column(rows, 3)
    \o <<Heading(VatHeading)>> \o Column(rows, 4)

\* no VAT analysis and the two money lists, or a column-major VAT analysis
ViridianTexts ==
    {[f EXCEPT !.net_values = n, !.vat_values = v, !.total = t] :
        f \in Found({None}), n \in Optional({1000, 3000}),
        v \in Optional({200}), t \in Optional(Totals)}
    \cup {[f EXCEPT !.vat_analysis = ColumnMajor(rows), !.total = t] :
            f \in Found({None}), rows \in AnalysisTables, t \in Optional(Totals)}

ViridianInputs ==
    {Located(f, d, ViridianPostcodes[d]) : f \in ViridianTexts, d \in DeliveryDocuments}

WatsonPrattInputs ==
    {[f EXCEPT !.subtotal = s, !.vat_net = vn, !.vat_amount = va, !.total = t] :
        f \in Found(SharedPostcodes), s \in Optional({3000}),
        vn \in Some({0, 1000, 5000}), va \in Optional({200}), t \in Optional(Totals)}

\* the value lines go through parse_money, whose pattern takes a leading "-"
AvogelInputs ==
    {[f EXCEPT !.zero_net = z, !.standard_net = s, !.subtotal = st,
               !.vat_amount = va, !.total = t] :
        f \in Found(SharedPostcodes), z \in Optional({2000, -500}), s \in Optional({1000}),
        st \in Optional({3000}), va \in Optional({200}), t \in Optional(Totals)}

BiocareTexts ==
    {[f EXCEPT !.vat_net = vn, !.nonvat_net = nn, !.vat_amount = va, !.total = t] :
        f \in Found({None}), vn \in Optional({1000}),
        nn \in Optional({0, 2000}), va \in Optional({200}), t \in Optional(Totals)}

BiocareInputs ==
    {Located(f, d, BiocarePostcodes[d]) : f \in BiocareTexts, d \in DeliveryDocuments}

\* a net, a VAT amount and a total
NetInputs ==
    {[f EXCEPT !.net = n, !.vat_amount = va, !.total = t] :
        f \in Found(SharedPostcodes), n \in Optional({1000}),
        va \in Optional({200}), t \in Optional(Totals)}

\* a VAT net, a VAT amount and a total
VatInputs(postcodes) ==
    {[f EXCEPT !.vat_net = vn, !.vat_amount = va, !.total = t] :
        f \in Found(postcodes), vn \in Optional({1000}),
        va \in Optional({200}), t \in Optional(Totals)}

NaturesPlusInputs ==
    {Located(f, d, NaturesPlusPostcodes[d]) : f \in VatInputs({None}), d \in DeliveryDocuments}

\* _extract_vat_split_from_lines: nothing, or both nets
NaturesAidInputs ==
    {[f EXCEPT !.split_vat_net = s[1], !.split_nonvat_net = s[2]] :
        f \in VatInputs(BionaturePostcodes),
        s \in {<<NoAmount, NoAmount>>, <<<<1000>>, <<2000>>>>, <<<<500>>, <<0>>>>}}

TonyrefailInputs ==
    {[f EXCEPT !.total = t] : f \in Found(BionaturePostcodes), t \in Optional(Totals)}

\* app/clf.py: the block after "Deliver To", stripped, and the amounts its
\* unsigned patterns capture; a date is parsed only from a date line
DeliverToInputs ==
    {[NoInput EXCEPT !.invoice_number = n, !.invoice_date_raw = d[1],
                     !.invoice_date = d[2], !.terms_days = td,
                     !.deliver_to = Strip(t), !.vat_net = vn, !.nonvat_net = nn,
                     !.vat_amount = va, !.total = tot] :
        n \in InvoiceNumbers,
        d \in {<<FALSE, FALSE>>, <<TRUE, FALSE>>, <<TRUE, TRUE>>}, td \in BOOLEAN,
        t \in Texts(1), vn \in Optional({1000}), nn \in Optional({2000}),
        va \in Optional({200}), tot \in Optional({0, 1200, 3200, 10000})}

Parsers ==
    { "app.clf.parse_clf", "parse_essential", "parse_clf", "_parse_section", "parse_viridian",
      "parse_watson_pratt", "parse_avogel", "parse_biocare", "parse_emporio",
      "parse_kinetic", "parse_lewtress", "parse_pestokill", "parse_bionature",
      "parse_natures_plus", "parse_nestle", "parse_natures_aid", "parse_tonyrefail" }

InputsOf(parser) ==
    CASE parser = "parse_essential" -> EssentialInputs
      [] parser = "parse_clf" -> ClfInputs
      [] parser = "_parse_section" -> HuntsInputs
      [] parser = "parse_viridian" -> ViridianInputs
      [] parser = "parse_watson_pratt" -> WatsonPrattInputs
      [] parser = "parse_avogel" -> AvogelInputs
      [] parser = "parse_biocare" -> BiocareInputs
      [] parser \in {"parse_emporio", "parse_lewtress", "parse_pestokill"} -> NetInputs
      [] parser = "parse_kinetic" -> VatInputs(SharedPostcodes)
      [] parser = "parse_natures_plus" -> NaturesPlusInputs
      [] parser \in {"parse_bionature", "parse_nestle"} -> VatInputs(BionaturePostcodes)
      [] parser = "parse_natures_aid" -> NaturesAidInputs
      [] parser = "parse_tonyrefail" -> TonyrefailInputs
      [] parser = "app.clf.parse_clf" -> DeliverToInputs

ParseInit ==
    /\ pParser \in Parsers
    /\ pIn \in InputsOf(pParser)
    /\ pPhase = "called"
    /\ pOut = NoResult
    /\ pcIdle
    /\ dIdle
    /\ hIdle
    /\ iIdle
    /\ sIdle
    /\ xIdle

Called(parser, result) ==
    /\ pPhase = "called"
    /\ pParser = parser
    /\ pPhase' = "returned"
    /\ pOut' = result
    /\ UNCHANGED <<pParser, pIn, pcVars, dVars, hVars, iVars, sVars, xVars>>

ParseEssential == Called("parse_essential", parse_essential(pIn))
ParseClf == Called("parse_clf", parse_clf(pIn))
ParseSection == Called("_parse_section", _parse_section(pIn))
ParseViridian == Called("parse_viridian", parse_viridian(pIn))
ParseWatsonPratt == Called("parse_watson_pratt", parse_watson_pratt(pIn))
ParseAvogel == Called("parse_avogel", parse_avogel(pIn))
ParseBiocare == Called("parse_biocare", parse_biocare(pIn))
ParseEmporio == Called("parse_emporio", parse_emporio(pIn))
ParseKinetic == Called("parse_kinetic", parse_kinetic(pIn))
ParseLewtress == Called("parse_lewtress", parse_lewtress(pIn))
ParsePestokill == Called("parse_pestokill", parse_pestokill(pIn))
ParseBionature == Called("parse_bionature", parse_bionature(pIn))
ParseNaturesPlus == Called("parse_natures_plus", parse_natures_plus(pIn))
ParseNestle == Called("parse_nestle", parse_nestle(pIn))
ParseNaturesAid == Called("parse_natures_aid", parse_natures_aid(pIn))
ParseTonyrefail == Called("parse_tonyrefail", parse_tonyrefail(pIn))
ParseDeliverTo == Called("app.clf.parse_clf", app_clf_parse_clf(pIn))

ParseNext ==
    \/ ParseEssential \/ ParseClf \/ ParseSection \/ ParseViridian
    \/ ParseWatsonPratt \/ ParseAvogel \/ ParseBiocare \/ ParseEmporio
    \/ ParseKinetic \/ ParseLewtress \/ ParsePestokill \/ ParseBionature
    \/ ParseNaturesPlus \/ ParseNestle \/ ParseNaturesAid \/ ParseTonyrefail
    \/ ParseDeliverTo

SpecParse == ParseInit /\ [][ParseNext]_vars

(***************************************************************************)
(* The inbound endpoint (main.py, postmark_inbound) with the queue store   *)
(* (app/firestore_queue.py) and the ledger client (app/sage_client.py).    *)
(* Several requests are served at once; a request takes one step for each  *)
(* call it makes to the queue store or to the ledger.  A call that can     *)
(* raise has the exception among its outcomes.                             *)
(***************************************************************************)
MaxRequests == 2
Requests == 1..MaxRequests

\* payload.get("MessageID") or payload.get("MessageId") of a payload that
\* has neither
NoMessageId == ""
MessageIds == {"m1", "m/2"}
Attachments == {"pdf", "image", "none"}

\* the fields of InvoiceData the endpoint keys its duplicate checks on
Invoice(supplier_reference, invoice_date, is_credit) == [supplier_reference |-> supplier_reference, invoice_date |-> invoice_date, is_credit |-> is_credit]
\* nothing parsed: no supplier matched the text
NoInvoice == Invoice("", "", FALSE)
Invoices == {Invoice("INV1", "2025-02-01", FALSE), Invoice("INV1", "2025-02-01", TRUE), Invoice("UNKNOWN", "2025-02-01", FALSE)}

\* sage_result: None, a skip, an error, or the document the ledger created
NoSageResult == [id |-> "", status |-> "", reason |-> ""]
Skipped(reason) == [id |-> "", status |-> "skipped", reason |-> reason]
Failed == [id |-> "", status |-> "error", reason |-> ""]
Created == [id |-> "id", status |-> "", reason |-> ""]

\* a request as it enters the handler; sage_exists is the local variable of
\* the posting loop, the answer of its last ledger lookup
Received(message_id, attachment, invoice) == [message_id |-> message_id, attachment |-> attachment, invoice |-> invoice, pc |-> "received", reserved |-> "", record_ids |-> <<>>, sage_exists |-> "", posted_with |-> <<>>, sage_result |-> NoSageResult, response |-> ""]

Payloads ==
    {Received(m, a, i) : m \in MessageIds \cup {NoMessageId}, a \in {"pdf", "image"}, i \in Invoices \cup {NoInvoice}}
    \cup {Received(m, "none", NoInvoice) : m \in MessageIds \cup {NoMessageId}}

\* str.replace("/", "_")
RECURSIVE ReplaceSlash(_)
ReplaceSlash(s) ==
    IF Len(s) = 0 THEN ""
    ELSE IF Len(s) = 1 THEN (IF s = "/" THEN "_" ELSE s)
    ELSE ReplaceSlash(SubSeq(s, 1, Len(s) \div 2)) \o ReplaceSlash(SubSeq(s, Len(s) \div 2 + 1, Len(s)))

_normalize_message_id(message_id) == ReplaceSlash(StrStrip(message_id))

\* the document is created unless one with that id exists (AlreadyExists)
reserve_message_id_uncontended(message_id) == message_id # ""
reserve_message_id(message_id) == message_id # "" /\ _normalize_message_id(message_id) \notin processed_messages

\* the reference is reserved unless it is reserved already
reserve_reference(supplier_reference, invoice_date, is_credit) == <<supplier_reference, invoice_date, is_credit>> \notin reference_locks

has_recent_posted_match(supplier_reference, invoice_date, is_credit) ==
    /\ supplier_reference # "" /\ invoice_date # ""
    /\ \E data \in sage_queue :
        /\ data.status = "posted"
        /\ data.parsed.supplier_reference = supplier_reference
        /\ data.parsed.invoice_date = invoice_date
        /\ data.parsed.is_credit = is_credit

\* what the call can return: the store's answer, or False when the store
\* raises
_is_duplicate_post(invoice) ==
    IF ~FIRESTORE_ENABLED THEN {FALSE}
    ELSE {has_recent_posted_match(invoice.supplier_reference, invoice.invoice_date, invoice.is_credit), FALSE}

\* what the searches can return: False when every search fails or finds
\* nothing, True when one of them finds a document with that number
_already_exists(number) ==
    IF number = "" \/ number = "UNKNOWN" THEN {FALSE}
    ELSE {FALSE} \cup {TRUE : item \in {item \in sage_documents : item.number = number}}

sage_invoice_exists(invoice) == _already_exists(invoice.supplier_reference)

\* Optional[bool] as "True", "False" or "None" (None when the lookup raises)
_sage_duplicate_exists(invoice) ==
    IF ~SAGE_ENABLED THEN {"None"}
    ELSE {"None"} \cup {IF exists THEN "True" ELSE "False" : exists \in sage_invoice_exists(invoice)}

InboundInit ==
    /\ FIRESTORE_ENABLED \in BOOLEAN
    /\ SAGE_ENABLED \in BOOLEAN
    /\ inbound \in [Requests -> Payloads]
    /\ processed_messages = {}
    /\ reference_locks = {}
    /\ sage_queue = {}
    /\ sage_documents = {}
    /\ pcIdle
    /\ dIdle
    /\ hIdle
    /\ pIdle
    /\ sIdle
    /\ xIdle

Config == <<FIRESTORE_ENABLED, SAGE_ENABLED>>
Idle == <<pcVars, dVars, hVars, pVars, sVars, xVars>>

\* message-id reservation (main.py 1646-1665)
ReserveMessageId ==
    \E r \in Requests :
        /\ inbound[r].pc = "received"
        /\ IF FIRESTORE_ENABLED /\ inbound[r].message_id # NoMessageId
           THEN \/ /\ reserve_message_id(inbound[r].message_id)
                   /\ processed_messages' = processed_messages \cup {_normalize_message_id(inbound[r].message_id)}
                   /\ inbound' = [inbound EXCEPT ![r].pc = "attachment", ![r].reserved = "created"]
                \/ /\ ~reserve_message_id(inbound[r].message_id)
                   /\ inbound' = [inbound EXCEPT ![r].pc = "done", ![r].reserved = "exists", ![r].response = "Duplicate message_id"]
                   /\ UNCHANGED processed_messages
                \/ /\ inbound' = [inbound EXCEPT ![r].pc = "attachment", ![r].reserved = "failed"]
                   /\ UNCHANGED processed_messages
           ELSE /\ inbound' = [inbound EXCEPT ![r].pc = "attachment", ![r].reserved = "unused"]
                /\ UNCHANGED processed_messages
        /\ UNCHANGED <<Config, reference_locks, sage_queue, sage_documents, Idle>>

\* from the search for an attachment to the supplier's extractor: without
\* an attachment a no_pdf record is written; without a supplier the PDF is
\* refused and the image is passed over
ReadAttachment ==
    \E r \in Requests :
        /\ inbound[r].pc = "attachment"
        /\ IF inbound[r].attachment = "none"
           THEN /\ inbound' = [inbound EXCEPT ![r].pc = "done", ![r].response = "No PDF attachment found"]
                /\ IF FIRESTORE_ENABLED
                   THEN \/ sage_queue' = sage_queue \cup {[id |-> r, status |-> "no_pdf", parsed |-> NoInvoice]}
                        \/ UNCHANGED sage_queue
                   ELSE UNCHANGED sage_queue
           ELSE /\ UNCHANGED sage_queue
                /\ IF inbound[r].invoice # NoInvoice
                   THEN inbound' = [inbound EXCEPT ![r].pc = "enqueue"]
                   ELSE IF inbound[r].attachment = "pdf"
                        THEN inbound' = [inbound EXCEPT ![r].pc = "done", ![r].response = "Unsupported supplier"]
                        ELSE inbound' = [inbound EXCEPT ![r].pc = "status"]
        /\ UNCHANGED <<Config, processed_messages, reference_locks, sage_documents, Idle>>

EnqueueRecord ==
    \E r \in Requests :
        /\ inbound[r].pc = "enqueue"
        /\ IF FIRESTORE_ENABLED
           THEN \/ /\ sage_queue' = sage_queue \cup {[id |-> r, status |-> "parsed", parsed |-> inbound[r].invoice]}
                   /\ inbound' = [inbound EXCEPT ![r].pc = IF SAGE_ENABLED THEN "reserve" ELSE "update", ![r].record_ids = <<r>>]
                \/ /\ inbound' = [inbound EXCEPT ![r].pc = IF SAGE_ENABLED THEN "reserve" ELSE "update"]
                   /\ UNCHANGED sage_queue
           ELSE /\ inbound' = [inbound EXCEPT ![r].pc = IF SAGE_ENABLED THEN "reserve" ELSE "update"]
                /\ UNCHANGED sage_queue
        /\ UNCHANGED <<Config, processed_messages, reference_locks, sage_documents, Idle>>

ReserveReference ==
    \E r \in Requests :
        /\ inbound[r].pc = "reserve"
        /\ IF FIRESTORE_ENABLED
           THEN \/ /\ reserve_reference(inbound[r].invoice.supplier_reference, inbound[r].invoice.invoice_date, inbound[r].invoice.is_credit)
                   /\ reference_locks' = reference_locks \cup {<<inbound[r].invoice.supplier_reference, inbound[r].invoice.invoice_date, inbound[r].invoice.is_credit>>}
                   /\ inbound' = [inbound EXCEPT ![r].pc = "duplicate"]
                \/ /\ ~reserve_reference(inbound[r].invoice.supplier_reference, inbound[r].invoice.invoice_date, inbound[r].invoice.is_credit)
                   /\ inbound' = [inbound EXCEPT ![r].pc = "locked"]
                   /\ UNCHANGED reference_locks
                \/ /\ inbound' = [inbound EXCEPT ![r].pc = "update", ![r].sage_result = Failed]
                   /\ UNCHANGED reference_locks
           ELSE /\ inbound' = [inbound EXCEPT ![r].pc = "duplicate"]
                /\ UNCHANGED reference_locks
        /\ UNCHANGED <<Config, processed_messages, sage_queue, sage_documents, Idle>>

\* the reason given for a skip when the ledger does not confirm the
\* duplicate: after a failed reservation, after a local match
LocalReason(pc) == IF pc = "locked" THEN "reference_locked" ELSE "duplicate_local"

\* the ledger lookup after a failed reservation ("locked") or after a
\* local match ("matched"): for a PDF only True and None skip the post, for
\* an image every answer does
SageDuplicateExists ==
    \E r \in Requests :
        /\ inbound[r].pc \in {"locked", "matched"}
        /\ \E sage_exists \in _sage_duplicate_exists(inbound[r].invoice) :
            IF sage_exists = "True"
            THEN inbound' = [inbound EXCEPT ![r].pc = "update", ![r].sage_exists = sage_exists, ![r].sage_result = Skipped("duplicate_sage")]
            ELSE IF sage_exists = "None" \/ inbound[r].attachment = "image"
                 THEN inbound' = [inbound EXCEPT ![r].pc = "update", ![r].sage_exists = sage_exists, ![r].sage_result = Skipped(LocalReason(inbound[r].pc))]
                 ELSE inbound' = [inbound EXCEPT ![r].pc = IF inbound[r].pc = "locked" THEN "duplicate" ELSE "post", ![r].sage_exists = sage_exists]
        /\ UNCHANGED <<Config, processed_messages, reference_locks, sage_queue, sage_documents, Idle>>

IsDuplicatePost ==
    \E r \in Requests :
        /\ inbound[r].pc = "duplicate"
        /\ \E is_dup \in _is_duplicate_post(inbound[r].invoice) :
            inbound' = [inbound EXCEPT ![r].pc = IF is_dup THEN "matched" ELSE "post"]
        /\ UNCHANGED <<Config, processed_messages, reference_locks, sage_queue, sage_documents, Idle>>

\* the call of post_purchase_invoice / post_purchase_credit_note up to its
\* own look in the ledger: it raises, finds the number, or goes on to send
PostPurchase ==
    \E r \in Requests :
        /\ inbound[r].pc = "post"
        /\ \/ inbound' = [inbound EXCEPT ![r].pc = "update", ![r].sage_result = Failed, ![r].posted_with = <<IF inbound[r].invoice.is_credit THEN "post_purchase_credit_note" ELSE "post_purchase_invoice">>]
           \/ \E exists \in _already_exists(inbound[r].invoice.supplier_reference) :
               IF exists
               THEN inbound' = [inbound EXCEPT ![r].pc = "update", ![r].sage_result = Skipped("already_exists"), ![r].posted_with = <<IF inbound[r].invoice.is_credit THEN "post_purchase_credit_note" ELSE "post_purchase_invoice">>]
               ELSE inbound' = [inbound EXCEPT ![r].pc = "sending", ![r].posted_with = <<IF inbound[r].invoice.is_credit THEN "post_purchase_credit_note" ELSE "post_purchase_invoice">>]
        /\ UNCHANGED <<Config, processed_messages, reference_locks, sage_queue, sage_documents, Idle>>

\* the POST that creates the document in the ledger, or fails
SendPurchase ==
    \E r \in Requests :
        /\ inbound[r].pc = "sending"
        /\ \/ /\ sage_documents' = sage_documents \cup {[by |-> r, number |-> inbound[r].invoice.supplier_reference, is_credit |-> inbound[r].invoice.is_credit]}
              /\ inbound' = [inbound EXCEPT ![r].pc = "update", ![r].sage_result = Created]
           \/ /\ inbound' = [inbound EXCEPT ![r].pc = "update", ![r].sage_result = Failed]
              /\ UNCHANGED sage_documents
        /\ UNCHANGED <<Config, processed_messages, reference_locks, sage_queue, Idle>>

\* the status update_record writes for a result
RecordStatus(sage_result) ==
    IF ~SAGE_ENABLED THEN "queued"
    ELSE IF sage_result.id # "" THEN "posted"
    ELSE IF sage_result.status = "skipped" THEN "skipped"
    ELSE IF sage_result.status = "error" THEN "error"
    ELSE "unknown"

update_record(doc_id, status) == {IF data.id = doc_id THEN [data EXCEPT !.status = status] ELSE data : data \in sage_queue}

\* the record of the invoice takes the status of its result; a write that
\* raises leaves the record as it was and, with posting enabled, makes the
\* result an error
UpdateRecord ==
    \E r \in Requests :
        /\ inbound[r].pc = "update"
        /\ IF inbound[r].record_ids # <<>> /\ (SAGE_ENABLED \/ inbound[r].attachment = "pdf")
           THEN \/ /\ sage_queue' = update_record(r, RecordStatus(inbound[r].sage_result))
                   /\ inbound' = [inbound EXCEPT ![r].pc = "status"]
                \/ /\ UNCHANGED sage_queue
                   /\ IF SAGE_ENABLED
                      THEN inbound' = [inbound EXCEPT ![r].pc = "status", ![r].sage_result = Failed]
                      ELSE inbound' = [inbound EXCEPT ![r].pc = "done", ![r].response = "Internal Server Error"]
           ELSE /\ UNCHANGED sage_queue
                /\ inbound' = [inbound EXCEPT ![r].pc = "status"]
        /\ UNCHANGED <<Config, processed_messages, reference_locks, sage_documents, Idle>>

\* update_message_status merges into the message document, creating it
\* when it does not exist; a write that raises is logged
UpdateMessageStatus ==
    \E r \in Requests :
        /\ inbound[r].pc = "status"
        /\ inbound' = [inbound EXCEPT ![r].pc = "done", ![r].response = "ok"]
        /\ IF FIRESTORE_ENABLED /\ inbound[r].message_id # NoMessageId
           THEN \/ processed_messages' = processed_messages \cup {_normalize_message_id(inbound[r].message_id)}
                \/ UNCHANGED processed_messages
           ELSE UNCHANGED processed_messages
        /\ UNCHANGED <<Config, reference_locks, sage_queue, sage_documents, Idle>>

InboundNext ==
    \/ ReserveMessageId \/ ReadAttachment \/ EnqueueRecord \/ ReserveReference
    \/ SageDuplicateExists \/ IsDuplicatePost \/ PostPurchase \/ SendPurchase
    \/ UpdateRecord \/ UpdateMessageStatus

SpecInbound == InboundInit /\ [][InboundNext]_vars

(***************************************************************************)
(* app/sage_client.py: the payload of a purchase invoice or credit note.   *)
(* An environment variable is TRUE when it is set; the record's amounts    *)
(* are in pence.                                                           *)
(***************************************************************************)
\* calendar.monthrange(year, month)[1], the length of a month
DaysInMonth(year, month) ==
    IF month = 2 THEN (IF year % 4 = 0 /\ (year % 100 # 0 \/ year % 400 = 0) THEN 29 ELSE 28)
    ELSE IF month \in {4, 6, 9, 11} THEN 30 ELSE 31

NextDay(d) ==
    IF d[3] < DaysInMonth(d[1], d[2]) THEN <<d[1], d[2], d[3] + 1>>
    ELSE IF d[2] < 12 THEN <<d[1], d[2] + 1, 1>>
    ELSE <<d[1] + 1, 1, 1>>

\* date + timedelta(days=days)
RECURSIVE PlusDays(_, _)
PlusDays(d, days) == IF days = 0 THEN d ELSE PlusDays(NextDay(d), days - 1)

\* the digits of n, at least width of them (format specs 04d and 02d)
RECURSIVE Zfill(_, _)
Zfill(n, width) ==
    (IF n >= 10 \/ width > 1 THEN Zfill(n \div 10, width - 1) ELSE "") \o SubSeq("0123456789", (n % 10) + 1, (n % 10) + 1)

\* date.isoformat(): YYYY-MM-DD
isoformat(d) == Zfill(d[1], 4) \o "-" \o Zfill(d[2], 2) \o "-" \o Zfill(d[3], 2)

\* invoice_date + timedelta(days=30)
_compute_due_date(invoice_date) == PlusDays(invoice_date, 30)

\* _get_ledger_account_id: the id configured for one of the three accounts
_get_ledger_account_id(invoice, env) ==
    invoice.ledger_account \in {5001, 5002, 5004} /\ env.SAGE_LEDGER_ID

StandardLine(vat_net, vat_amount) ==
    [net_amount |-> vat_net, tax_rate_id |-> "GB_STANDARD", tax_amount |-> vat_amount,
     total_amount |-> vat_net + vat_amount]

ZeroLine(nonvat_net) ==
    [net_amount |-> nonvat_net, tax_rate_id |-> "GB_ZERO", tax_amount |-> 0,
     total_amount |-> nonvat_net]

\* if vat_net > 0: <the standard line>   if nonvat_net > 0: <the zero line>
InvoiceLines(invoice) ==
    (IF invoice.vat_net > 0
     THEN <<StandardLine(invoice.vat_net, invoice.vat_amount)>> ELSE <<>>)
    \o (IF invoice.nonvat_net > 0 THEN <<ZeroLine(invoice.nonvat_net)>> ELSE <<>>)

\* the lines and net_amount, vat_amount, total_amount; no line is a RuntimeError
_build_invoice_lines(invoice) ==
    [invoice_lines |-> InvoiceLines(invoice),
     net_amount |-> invoice.vat_net + invoice.nonvat_net,
     tax_amount |-> invoice.vat_amount,
     total_amount |-> invoice.vat_net + invoice.nonvat_net + invoice.vat_amount]

Raised(exception) == [status |-> exception, payload |-> <<>>]

AlreadyExists == [status |-> "skipped", payload |-> <<>>]

\* requests.post(..., json=payload) and _raise_for_status_with_body
Send(payload, status_code) ==
    [status |-> IF status_code >= 400 THEN "RuntimeError" ELSE "posted",
     payload |-> <<payload>>]

\* the payload as a mutation would build it: the record's own due date
\* where it has one
PurchasePayloadOwnDueDate(invoice) ==
    [date |-> isoformat(invoice.invoice_date),
     due_date |-> isoformat(IF invoice.due_date # NoDay THEN invoice.due_date ELSE _compute_due_date(invoice.invoice_date)),
     invoice_lines |-> _build_invoice_lines(invoice).invoice_lines,
     net_amount |-> _build_invoice_lines(invoice).net_amount,
     tax_amount |-> _build_invoice_lines(invoice).tax_amount,
     total_amount |-> _build_invoice_lines(invoice).total_amount]
\* payload = {"purchase_invoice" / "purchase_credit_note": {"date": ...,
\* "due_date": ..., the amounts and the lines}}
PurchasePayload(invoice) ==
    [date |-> isoformat(invoice.invoice_date),
     due_date |-> isoformat(_compute_due_date(invoice.invoice_date)),
     invoice_lines |-> _build_invoice_lines(invoice).invoice_lines,
     net_amount |-> _build_invoice_lines(invoice).net_amount,
     tax_amount |-> _build_invoice_lines(invoice).tax_amount,
     total_amount |-> _build_invoice_lines(invoice).total_amount]

\* post_purchase_invoice and post_purchase_credit_note: the same steps
PostPayload(invoice, env) ==
    IF ~env.SAGE_BUSINESS_ID \/ ~(invoice.contact_id \/ env.SAGE_CONTACT_ID)
    THEN Raised("RuntimeError")
    ELSE IF ~_get_ledger_account_id(invoice, env) THEN Raised("RuntimeError")
    ELSE IF ~env.oauth THEN Raised("RuntimeError")
    ELSE IF InvoiceLines(invoice) = <<>> THEN Raised("RuntimeError")
    ELSE IF env.already_exists THEN AlreadyExists
    ELSE Send(PurchasePayload(invoice), env.status_code)

post_purchase_invoice(invoice, env) == PostPayload(invoice, env)

post_purchase_credit_note(invoice, env) == PostPayload(invoice, env)

\* the amounts of a record, each >= 0 (app/models.py)
PostedNets == {0, 1000}

PostedZeroNets == {0, 2000}

PostedVats == {0, 200}

\* invoice_date: date
PostedDates == {<<2026, 12, 5>>, <<2024, 1, 31>>}

\* due_date: Optional[date], from a label or from the supplier's terms
PostedDueDates == {NoDay, <<2026, 12, 12>>, <<2027, 1, 4>>}

PostedInvoices ==
    {[is_credit |-> c, ledger_account |-> l, contact_id |-> k,
      invoice_date |-> date, due_date |-> due,
      vat_net |-> vn, nonvat_net |-> nn, vat_amount |-> va] :
        c \in BOOLEAN, l \in {NoAccount, 5001}, k \in BOOLEAN,
        date \in PostedDates, due \in PostedDueDates,
        vn \in PostedNets, nn \in PostedZeroNets, va \in PostedVats}

Environments ==
    {[SAGE_BUSINESS_ID |-> b, SAGE_CONTACT_ID |-> k, SAGE_LEDGER_ID |-> l,
      oauth |-> o, already_exists |-> e, status_code |-> sc] :
        b \in BOOLEAN, k \in BOOLEAN, l \in BOOLEAN, o \in BOOLEAN, e \in BOOLEAN,
        sc \in {200, 422}}

SageInit ==
    /\ sInvoice \in PostedInvoices
    /\ sEnv \in Environments
    /\ sPhase = "called"
    /\ sOut = NotPosted
    /\ pcIdle
    /\ dIdle
    /\ hIdle
    /\ pIdle
    /\ iIdle
    /\ xIdle

\* main.py: if invoice.is_credit: post_purchase_credit_note(invoice)
PostCreditNote ==
    /\ sPhase = "called"
    /\ sInvoice.is_credit
    /\ sPhase' = "returned"
    /\ sOut' = post_purchase_credit_note(sInvoice, sEnv)
    /\ UNCHANGED <<sInvoice, sEnv, pcVars, dVars, hVars, pVars, iVars, xVars>>

\* main.py: else: post_purchase_invoice(invoice)
PostInvoice ==
    /\ sPhase = "called"
    /\ ~sInvoice.is_credit
    /\ sPhase' = "returned"
    /\ sOut' = post_purchase_invoice(sInvoice, sEnv)
    /\ UNCHANGED <<sInvoice, sEnv, pcVars, dVars, hVars, pVars, iVars, xVars>>

SageNext == PostCreditNote \/ PostInvoice

SpecSage == SageInit /\ [][SageNext]_vars

(***************************************************************************)
(* The extractors and the clock: app/parse_utils.py parse_date hands the   *)
(* date text to dateutil's parser.parse without a default, so dateutil     *)
(* fills every field the text leaves out from datetime.now().  A date text *)
(* is modelled by the fields written in it (0: not written); a date is     *)
(* <<year, month, day>>.                                                   *)
(***************************************************************************)
NoDateText == [day |-> 0, month |-> 0, year |-> 0]
NoTerms == -1

EpochDay == <<1970, 1, 1>>

Earlier(a, b) ==
    \/ a[1] < b[1]
    \/ a[1] = b[1] /\ a[2] < b[2]
    \/ a[1] = b[1] /\ a[2] = b[2] /\ a[3] < b[3]

OrDefault(field, default) == IF field = 0 THEN default ELSE field

\* dateutil: a day that is not written is the default's day, cut down to the
\* length of the month; a written day the month does not have is a ValueError
BuildNaive(year, month, day, default) ==
    IF day = 0 THEN <<year, month, IF default[3] > DaysInMonth(year, month) THEN DaysInMonth(year, month) ELSE default[3]>>
    ELSE IF day > DaysInMonth(year, month) THEN NoDay
    ELSE <<year, month, day>>

\* parse_date(value): None for no value and for a ValueError, otherwise
\* date_parser.parse(cleaned, dayfirst=dayfirst).date() with default =
\* datetime.now() at midnight
parse_date(value, default) ==
    IF value = NoDateText THEN NoDay
    ELSE BuildNaive(OrDefault(value.year, default[1]), OrDefault(value.month, default[2]), value.day, default)

\* a pattern that takes whatever follows the label: "(.+)" in pestokill,
\* "([A-Z0-9\-/ ]+)" in clf
LooseDate(value) == value

\* a pattern of digits of the form dd/mm/yyyy: it matches only a text with
\* the three fields
StrictDate(value) == IF value.day # 0 /\ value.month # 0 /\ value.year # 0 THEN value ELSE NoDateText

\* if not invoice_date: warnings.append("Invoice date not found");
\*                      invoice_date = parse_date("01/01/1970")
DatedRecord(invoice_date, due_date) ==
    [invoice_date |-> IF invoice_date = NoDay THEN EpochDay ELSE invoice_date,
     due_date |-> due_date,
     warnings |-> IF invoice_date = NoDay THEN <<"Invoice date not found">> ELSE <<>>]

InvoiceDateOr(invoice_date) == IF invoice_date = NoDay THEN EpochDay ELSE invoice_date

\* parse_pestokill: due_date = invoice_date + timedelta(days=30)
PestokillDates(t, default) ==
    DatedRecord(parse_date(LooseDate(t.invoice_date), default),
                PlusDays(InvoiceDateOr(parse_date(LooseDate(t.invoice_date), default)), 30))

\* parse_viridian: terms_days = _extract_terms_days(text or "")
\*   due_date = invoice_date + timedelta(days=terms_days or 30)
ViridianTerms(terms_days) == IF terms_days = NoTerms \/ terms_days = 0 THEN 30 ELSE terms_days

ViridianDates(t, default) ==
    DatedRecord(parse_date(StrictDate(t.invoice_date), default),
                PlusDays(InvoiceDateOr(parse_date(StrictDate(t.invoice_date), default)), ViridianTerms(t.terms)))

\* parse_clf: due_date = parse_date(due_date_str) if due_date_str else None
\*   if due_date is None:
\*       terms_days = _extract_terms_days(text or "")
\*       if terms_days and invoice_date:
\*           due_date = invoice_date + timedelta(days=terms_days)
ClfDueDate(invoice_date, due_date, terms_days) ==
    IF due_date # NoDay THEN due_date
    ELSE IF terms_days # NoTerms /\ terms_days # 0 THEN PlusDays(invoice_date, terms_days)
    ELSE NoDay

\* clf _extract_invoice_date: the patterns are tried in order, and the last one,
\* "Date\s*[:]?\s*(dd/mm/yyyy)", also matches inside a "Due Date:" line
ClfInvoiceDateText(t) ==
    IF LooseDate(t.invoice_date) # NoDateText THEN LooseDate(t.invoice_date)
    ELSE StrictDate(t.due_date)

ClfDates(t, default) ==
    DatedRecord(parse_date(ClfInvoiceDateText(t), default),
                ClfDueDate(InvoiceDateOr(parse_date(ClfInvoiceDateText(t), default)),
                           parse_date(LooseDate(t.due_date), default), t.terms))

\* the clocks of the model: the last day of a month, the day after it, and a
\* day of the next year
Clocks == {<<2026, 10, 31>>, <<2026, 11, 1>>, <<2027, 1, 2>>}

\* the date texts: "12/11/2026", "12 NOV", "NOV 2026", "NOV", "12", "2026"
\* and no date
DateTexts ==
    {[day |-> d, month |-> m, year |-> y] : d \in {0, 12}, m \in {0, 11}, y \in {0, 2026}}
        \ {[day |-> 12, month |-> 0, year |-> 2026]}

DueDateTexts == {NoDateText, [day |-> 12, month |-> 11, year |-> 0], [day |-> 12, month |-> 11, year |-> 2026]}

TermsTexts == {NoTerms, 0, 7}

DatedText(invoice_date, due_date, terms) == [invoice_date |-> invoice_date, due_date |-> due_date, terms |-> terms]

PestokillTexts == {DatedText(d, NoDateText, NoTerms) : d \in DateTexts}
ViridianDatedTexts == {DatedText(d, NoDateText, n) : d \in DateTexts, n \in TermsTexts}
ClfDatedTexts == {DatedText(d, due, n) : d \in DateTexts, due \in DueDateTexts, n \in TermsTexts}

MaxCalls == 2

ModuleTables == [LEDGER_MAP |-> [pc \in LedgerKeys |-> LEDGER_MAP(pc)]]

ClockInit ==
    /\ now \in Clocks
    /\ calls = {}
    /\ tables = ModuleTables
    /\ pcIdle
    /\ dIdle
    /\ hIdle
    /\ pIdle
    /\ iIdle
    /\ sIdle
    /\ mIdle
    /\ aIdle
    /\ rIdle

Others == <<pcVars, dVars, hVars, pVars, iVars, sVars, rVars>>

\* time passes between two calls
Midnight ==
    /\ \E later \in Clocks : Earlier(now, later) /\ now' = later
    /\ UNCHANGED <<calls, tables, Others, mVars, aVars>>

CallRecord(parser, t, output) == [parser |-> parser, input |-> t, output |-> output]

CallPestokill ==
    /\ Cardinality(calls) < MaxCalls
    /\ \E t \in PestokillTexts : calls' = calls \cup {CallRecord("parse_pestokill", t, PestokillDates(t, now))}
    /\ UNCHANGED <<now, tables, Others, mVars, aVars>>

CallViridian ==
    /\ Cardinality(calls) < MaxCalls
    /\ \E t \in ViridianDatedTexts : calls' = calls \cup {CallRecord("parse_viridian", t, ViridianDates(t, now))}
    /\ UNCHANGED <<now, tables, Others, mVars, aVars>>

CallClf ==
    /\ Cardinality(calls) < MaxCalls
    /\ \E t \in ClfDatedTexts : calls' = calls \cup {CallRecord("parse_clf", t, ClfDates(t, now))}
    /\ UNCHANGED <<now, tables, Others, mVars, aVars>>

ClockNext == Midnight \/ CallPestokill \/ CallViridian \/ CallClf

SpecClock == ClockInit /\ [][ClockNext]_vars

(***************************************************************************)
(* app/parse_utils.py: parse_money                                         *)
(*   _MONEY_RE = -?\d{1,3}(?:,\d{3})*(?:\.\d{2})?|-?\d+(?:\.\d{2})?          *)
(* A text is a sequence of characters; an amount is a whole number of      *)
(* pence.  The pound and euro signs are written # and @ here.              *)
(***************************************************************************)
POUND == "#"
EURO == "@"

NoMoney == [matched |-> FALSE, pence |-> 0]
Money(pence) == [matched |-> TRUE, pence |-> pence]

\* cleaned.replace(pound, "").replace("$", "").replace(euro, "").replace(" ", "")
RECURSIVE RemoveCurrency(_)
RemoveCurrency(s) ==
    IF s = <<>> THEN <<>>
    ELSE IF Head(s) \in {POUND, "$", EURO, " "} THEN RemoveCurrency(Tail(s))
    ELSE <<Head(s)>> \o RemoveCurrency(Tail(s))

\* \d{1,3} is greedy and everything after it is optional: it takes up to three
\* digits and never gives one back
DigitRun3(s, p) ==
    IF ~IsDigit(CharAt(s, p)) THEN 0
    ELSE IF ~IsDigit(CharAt(s, p + 1)) THEN 1
    ELSE IF ~IsDigit(CharAt(s, p + 2)) THEN 2
    ELSE 3

\* (?:,\d{3})*: the number of groups taken
RECURSIVE GroupRun(_, _)
GroupRun(s, p) ==
    IF CharAt(s, p) = "," /\ AllDigits(s, p + 1, 3) THEN 1 + GroupRun(s, p + 4) ELSE 0

\* (?:\.\d{2})?: the position after it
AfterFraction(s, q) == IF CharAt(s, q) = "." /\ AllDigits(s, q + 1, 2) THEN q + 3 ELSE q

AfterGroups(s, p) == p + 4 * GroupRun(s, p)

\* the first alternative from its first digit at p: the position after the match
MoneyEnd(s, p) == AfterFraction(s, AfterGroups(s, p + DigitRun3(s, p)))

\* -?: where the digits start for a match that starts at i
MoneyDigitsAt(s, i) == IF CharAt(s, i) = "-" /\ IsDigit(CharAt(s, i + 1)) THEN i + 1 ELSE i

\* the first alternative matches wherever a digit follows the optional sign, so
\* the second alternative is never tried
MoneyStarts(s) == {i \in 1..Len(s) : IsDigit(CharAt(s, MoneyDigitsAt(s, i)))}

MoneyGroup0(s, i) == SubSeq(s, i, MoneyEnd(s, MoneyDigitsAt(s, i)) - 1)

\* match.group(0).replace(",", "")
RECURSIVE RemoveCommas(_)
RemoveCommas(s) ==
    IF s = <<>> THEN <<>>
    ELSE IF Head(s) = "," THEN RemoveCommas(Tail(s))
    ELSE <<Head(s)>> \o RemoveCommas(Tail(s))

RECURSIVE DigitsToInt(_)
DigitsToInt(ds) ==
    IF ds = <<>> THEN 0
    ELSE 10 * DigitsToInt(SubSeq(ds, 1, Len(ds) - 1)) + DigitValue(ds[Len(ds)])

\* float(number) of an unsigned number, in pence
UnsignedPence(number) ==
    IF Len(number) >= 3 /\ number[Len(number) - 2] = "."
    THEN 100 * DigitsToInt(SubSeq(number, 1, Len(number) - 3)) + DigitsToInt(SubSeq(number, Len(number) - 1, Len(number)))
    ELSE 100 * DigitsToInt(number)

\* float(number)
ToPence(number) ==
    IF number # <<>> /\ Head(number) = "-" THEN 0 - UnsignedPence(Tail(number))
    ELSE UnsignedPence(number)

\* match = _MONEY_RE.search(cleaned)
MoneySearch(cleaned) ==
    IF MoneyStarts(cleaned) = {} THEN NoMoney
    ELSE Money(ToPence(RemoveCommas(MoneyGroup0(cleaned, MinOf(MoneyStarts(cleaned))))))

parse_money(value) ==
    IF value = <<>> THEN NoMoney
    ELSE MoneySearch(RemoveCurrency(Strip(value)))

MoneyChars == {"1", "2", ",", ".", POUND, " ", "-", "a"}

MaxMoneyLen == 3

RECURSIVE ShortTexts(_)
ShortTexts(n) ==
    IF n = 0 THEN {<<>>}
    ELSE ShortTexts(n - 1) \cup {t \o <<c>> : t \in ShortTexts(n - 1), c \in MoneyChars}

\* the amounts of the test suite and of the extractors' documents
LongTexts ==
    { <<"1", ",", "4", "6", "6", ".", "9", "3">>,
      <<"1", "4", "6", "6", ".", "9", "3">>,
      <<POUND, "1", "3", "2", ".", "0", "0">>,
      <<POUND, "1", "1", "8", ".", "0", "9">>,
      <<"1", "2", ",", "3", "4", "5", ",", "6", "7", "8", ".", "9", "0">>,
      <<"-", "1", ",", "4", "6", "6", ".", "9", "3">>,
      <<"1", "2", "3", "4">>,
      <<" ", POUND, " ", "2", "1", ".", "1", "2", " ">> }

MoneyTexts == ShortTexts(MaxMoneyLen) \cup LongTexts

MoneyInit ==
    /\ mText \in MoneyTexts
    /\ mPhase = "called"
    /\ mOut = NoMoney
    /\ pcIdle
    /\ dIdle
    /\ hIdle
    /\ pIdle
    /\ iIdle
    /\ sIdle
    /\ cIdle
    /\ aIdle
    /\ rIdle

ParseMoney ==
    /\ mPhase = "called"
    /\ mPhase' = "returned"
    /\ mOut' = parse_money(mText)
    /\ UNCHANGED <<mText, Others, cVars, aVars>>

MoneyNext == ParseMoney

SpecMoney == MoneyInit /\ [][MoneyNext]_vars

(***************************************************************************)
(* app/parsers/hunts.py: the rate lines of _extract_vat_analysis           *)
(*   ^\d+\s+(ZERO|[\d.]+%)\s+([\d.,]+)\s+([\d.,]+)   with re.IGNORECASE     *)
(* A numbered line is modelled by its three groups: the rate as a string,  *)
(* the net and the VAT as the characters printed.                          *)
(***************************************************************************)
RateLine(rate_str, net, vat) == [rate_str |-> rate_str, net |-> net, vat |-> vat]

NoRates == [found_rates |-> FALSE, vat_net |-> 0, nonvat_net |-> 0, vat_amount |-> 0]

\* if rate_str.upper() == "ZERO" or rate_str == "0.00%": nonvat_net += net_val
\* else: vat_net += net_val
IsZeroRateLine(rate_str) == StrLower(rate_str) = "zero" \/ rate_str = "0.00%"

AddNet(acc, rate_str, net_val) ==
    IF IsZeroRateLine(rate_str)
    THEN [acc EXCEPT !.found_rates = TRUE, !.nonvat_net = @ + net_val]
    ELSE [acc EXCEPT !.found_rates = TRUE, !.vat_net = @ + net_val]

\* if vat_val is not None: vat_amount += vat_val
AddVat(acc, vat_val) ==
    IF vat_val.matched THEN [acc EXCEPT !.vat_amount = @ + vat_val.pence] ELSE acc

\* net_val = parse_money(m.group(2)); if net_val is None: continue
AddRateLine(acc, line, net_val) ==
    IF ~net_val.matched THEN acc
    ELSE AddVat(AddNet(acc, line.rate_str, net_val.pence), parse_money(line.vat))

\* for line in lines: ...
RECURSIVE RateLines(_, _)
RateLines(acc, lines) ==
    IF lines = <<>> THEN acc
    ELSE RateLines(AddRateLine(acc, Head(lines), parse_money(Head(lines).net)), Tail(lines))

\* if not found_rates: return None, None, None, None
hunts_rate_lines(lines) == RateLines(NoRates, lines)

RateStrings == {"ZERO", "zero", "0%", "0.0%", "0.00%", "20.00%", "5%"}

NetTexts ==
    { <<"1", "0", ".", "0", "0">>,
      <<"1", ",", "4", "6", "6", ".", "9", "3">>,
      <<".">> }

VatTexts == { <<"0", ".", "0", "0">>, <<"2", ".", "0", "0">> }

RateLineSet == {RateLine(r, n, v) : r \in RateStrings, n \in NetTexts, v \in VatTexts}

MaxRateLines == 2

RateTables == UNION {[1..n -> RateLineSet] : n \in 0..MaxRateLines}

AnalysisInit ==
    /\ aLines \in RateTables
    /\ aPhase = "called"
    /\ aOut = NoRates
    /\ pcIdle
    /\ dIdle
    /\ hIdle
    /\ pIdle
    /\ iIdle
    /\ sIdle
    /\ cIdle
    /\ mIdle
    /\ rIdle

ExtractVatAnalysis ==
    /\ aPhase = "called"
    /\ aPhase' = "returned"
    /\ aOut' = hunts_rate_lines(aLines)
    /\ UNCHANGED <<aLines, Others, cVars, mVars>>

AnalysisNext == ExtractVatAnalysis

SpecAnalysis == AnalysisInit /\ [][AnalysisNext]_vars

(***************************************************************************)
(* main.py _enforce_rate_limit with app/firestore_queue.py                 *)
(* increment_rate_limit: the store adds one to the count of the key's      *)
(* document in one write, and the call reads the document in a second      *)
(* request.  Several requests are served at once; either request to the    *)
(* store can raise, and a write that raises may have been applied.         *)
(***************************************************************************)
MaxCallers == 3
Callers == 1..MaxCallers

SenderEmails == {"Ann@x.com", "ann@x.com", "bob@y.org"}

FirstDay == <<2026, 10, 31>>
LastDay == <<2026, 11, 1>>
UtcDays == {FirstDay, LastDay}

\* os.getenv("RATE_LIMIT_PER_DAY", "20")
LimitSettings == {"", "x", "0", "1", "2"}

\* int(RATE_LIMIT_PER_DAY), 0 on a ValueError
LimitOf(setting) == IF Len(setting) > 0 /\ StrDigitRun(setting, 1) = Len(setting) THEN ToInt(setting) ELSE 0

\* f"{sender_email.lower()}:{stamp}" with stamp = strftime("%Y-%m-%d")
_rate_limit_key(sender_email, day) == StrLower(sender_email) \o ":" \o isoformat(day)

RateKeys == {_rate_limit_key(sender, day) : sender \in SenderEmails, day \in UtcDays}

\* a call of _enforce_rate_limit as it is entered
Entered(sender_email) == [sender_email |-> sender_email, pc |-> "called", limit |-> 0, key |-> "", wrote |-> FALSE, count |-> 0]

\* firestore.Increment(1) without the addition
IncrementLost(count) == count
\* firestore.Increment(1), applied by the store in one step
Increment(count) == count + 1

RateInit ==
    /\ RATE_LIMIT_PER_DAY \in LimitSettings
    /\ FIRESTORE_ENABLED \in BOOLEAN
    /\ utcnow = FirstDay
    /\ rate_limits = [key \in RateKeys |-> 0]
    /\ rCalls \in [Callers -> {Entered(sender) : sender \in SenderEmails}]
    /\ SAGE_ENABLED = FALSE /\ inbound = <<>>
    /\ processed_messages = {} /\ reference_locks = {}
    /\ sage_queue = {} /\ sage_documents = {}
    /\ pcIdle
    /\ dIdle
    /\ hIdle
    /\ pIdle
    /\ sIdle
    /\ cIdle
    /\ mIdle
    /\ aIdle

RateRest == <<pcVars, dVars, hVars, pVars, iVars, sVars, cVars, mVars, aVars>>

\* the day changes between two steps
UtcMidnight ==
    /\ utcnow # LastDay
    /\ utcnow' = NextDay(utcnow)
    /\ UNCHANGED <<RATE_LIMIT_PER_DAY, rate_limits, rCalls, RateRest>>

\* _enforce_rate_limit up to the call of increment_rate_limit: it returns
\* without a limit or without the store
EnforceRateLimit ==
    \E r \in Callers :
        /\ rCalls[r].pc = "called"
        /\ IF LimitOf(RATE_LIMIT_PER_DAY) <= 0 \/ ~FIRESTORE_ENABLED
           THEN rCalls' = [rCalls EXCEPT ![r].pc = "returned", ![r].limit = LimitOf(RATE_LIMIT_PER_DAY)]
           ELSE rCalls' = [rCalls EXCEPT ![r].pc = "set", ![r].limit = LimitOf(RATE_LIMIT_PER_DAY), ![r].key = _rate_limit_key(rCalls[r].sender_email, utcnow)]
        /\ UNCHANGED <<RATE_LIMIT_PER_DAY, utcnow, rate_limits, RateRest>>

\* doc_ref.set({"count": firestore.Increment(1), ...}, merge=True): applied,
\* applied and raised, or raised
IncrementSet ==
    \E r \in Callers :
        /\ rCalls[r].pc = "set"
        /\ \/ /\ rate_limits' = [rate_limits EXCEPT ![rCalls[r].key] = Increment(@)]
              /\ rCalls' = [rCalls EXCEPT ![r].pc = "get", ![r].wrote = TRUE]
           \/ /\ rate_limits' = [rate_limits EXCEPT ![rCalls[r].key] = Increment(@)]
              /\ rCalls' = [rCalls EXCEPT ![r].pc = "raised", ![r].wrote = TRUE]
           \/ /\ UNCHANGED rate_limits
              /\ rCalls' = [rCalls EXCEPT ![r].pc = "raised"]
        /\ UNCHANGED <<RATE_LIMIT_PER_DAY, utcnow, RateRest>>

\* snapshot = doc_ref.get(); count = int(data.get("count") or 0), and the
\* comparison of _enforce_rate_limit: HTTP 429 above the limit
IncrementGet ==
    \E r \in Callers :
        /\ rCalls[r].pc = "get"
        /\ \/ rCalls' = [rCalls EXCEPT ![r].pc = IF rate_limits[rCalls[r].key] > rCalls[r].limit THEN "rejected" ELSE "returned", ![r].count = rate_limits[rCalls[r].key]]
           \/ rCalls' = [rCalls EXCEPT ![r].pc = "raised"]
        /\ UNCHANGED <<RATE_LIMIT_PER_DAY, utcnow, rate_limits, RateRest>>

RateNext == UtcMidnight \/ EnforceRateLimit \/ IncrementSet \/ IncrementGet

SpecRate == RateInit /\ [][RateNext]_vars

(***************************************************************************)
(* Claims about the postcode helpers (SpecPostcode)                        *)
(***************************************************************************)
SpacesOf(s) == {i \in 1..Len(s) : s[i] = " "}
WhitespaceOf(s) == {i \in 1..Len(s) : IsSpace(s[i])}

\* exactly one space, three characters after it, no other whitespace
Canonical(pc) ==
    /\ Cardinality(SpacesOf(pc)) = 1
    /\ WhitespaceOf(pc) = SpacesOf(pc)
    /\ pc[Len(pc) - 3] = " "

HasPostcodeShape(s) == \E i \in 1..Len(s) : PostcodeMatchAt(s, i).matched

KnownAt(xs) == {k \in 1..Len(xs) : xs[k] \in LedgerKeys}

FirstKeyOrFirst(cands, known) ==
    IF known # {} THEN cands[MinOf(known)]
    ELSE IF cands # <<>> THEN cands[1] ELSE None

ExpectedPostcode(cands) == FirstKeyOrFirst(cands, KnownAt(cands))

\* C9: extract_delivery_postcode returns the first normalized candidate that is
\* a key of LEDGER_MAP; when no candidate is a key, the first normalized
\* candidate; and None exactly when the text has no postcode-shaped substring.
C9_ExtractPrefersKnown ==
    pcPhase = "extracted" =>
        /\ (pcOut = None) <=> ~HasPostcodeShape(text)
        /\ HasPostcodeShape(text) => pcOut = ExpectedPostcode(NormalizedCandidates(text))

SecondChoice(cands, out) ==
    /\ Len(cands) >= 2
    /\ cands[1] \notin LedgerKeys
    /\ out \in LedgerKeys

\* C9 witness: a store postcode is returned although another postcode comes first
C9_Witness ==
    /\ pcPhase = "extracted"
    /\ SecondChoice(NormalizedCandidates(text), pcOut)

\* C10: normalize_postcode returns None exactly when the input without its
\* whitespace has fewer than 5 characters, and otherwise a string with exactly
\* one space, exactly 3 characters after it, and no other whitespace.
C10_NormalizeCanonical ==
    pcPhase = "normalized" =>
        /\ (pcOut = None) <=> Len(RemoveWhitespace(text)) < 5
        /\ pcOut # None => Canonical(pcOut)

(***************************************************************************)
(* Claims about the dispatcher (SpecDetect)                                *)
(***************************************************************************)
\* the suppliers in the order the claims give, each with its extractor
Suppliers ==
    << "parse_hunts", "parse_essential", "parse_clf", "parse_viridian",
       "parse_watson_pratt", "parse_nestle", "parse_natures_plus", "parse_bionature",
       "parse_natures_aid", "parse_tonyrefail", "parse_avogel", "parse_emporio",
       "parse_pestokill", "parse_absolute_aromas", "parse_lewtress", "parse_biocare",
       "parse_kinetic" >>

\* the sender domains of the four suppliers that have one, in the same order
SenderDomains ==
    << "@huntsfoodgroup.co.uk", "@essential-trading.coop",
       "@clfdistribution.com", "@viridian-nutrition.com" >>

\* the text heuristic of supplier k, on the lower-cased text
TextPredicate(k, normalized) ==
    CASE k = 1 -> hunts_markers(normalized)
      [] k = 2 -> essential_markers(normalized)
      [] k = 3 -> clf_markers(normalized)
      [] k = 4 -> viridian_markers(normalized)
      [] k = 5 -> watson_pratt_markers(normalized)
      [] k = 6 -> nestle_markers(normalized)
      [] k = 7 -> natures_plus_markers(normalized)
      [] k = 8 -> bionature_markers(normalized)
      [] k = 9 -> natures_aid_markers(normalized)
      [] k = 10 -> tonyrefail_markers(normalized)
      [] k = 11 -> avogel_markers(normalized)
      [] k = 12 -> emporio_markers(normalized)
      [] k = 13 -> pestokill_markers(normalized)
      [] k = 14 -> absolute_aromas_markers(normalized)
      [] k = 15 -> lewtress_markers(normalized)
      [] k = 16 -> biocare_markers(normalized)
      [] k = 17 -> kinetic_markers(normalized)

SenderPredicate(k, sender) == k <= Len(SenderDomains) /\ EndsWith(sender, SenderDomains[k])

FilenamePredicate(k, name) == k = 5 /\ _filename_looks_like_watson_pratt(name)

\* the suppliers whose text heuristic, resp. whose sender, text or filename
\* predicate, holds of the current call
TextMatchesOf(normalized) == {k \in 1..Len(Suppliers) : TextPredicate(k, normalized)}

TextMatches == TextMatchesOf(StrLower(dText))

MatchesOf(normalized) ==
    {k \in 1..Len(Suppliers) :
        \/ SenderPredicate(k, dSender)
        \/ TextPredicate(k, normalized)
        \/ FilenamePredicate(k, dName)}

Matches == MatchesOf(StrLower(dText))

SenderSupplier == {k \in 1..Len(SenderDomains) : SenderPredicate(k, dSender)}

FirstMatchInvoked(matches) ==
    IF matches = {}
    THEN /\ dRes.called = <<>>
         /\ dRes.outcome = IF dRaise THEN "HTTP 400 Unsupported supplier" ELSE "None"
    ELSE /\ dRes.called = <<Suppliers[MinOf(matches)]>>
         /\ dRes.outcome = "extractor"

\* C5: _detect_and_parse invokes exactly one extractor, that of the first
\* supplier in the fixed order whose sender-domain, text or filename predicate
\* holds; when none holds it invokes no extractor and ends with HTTP 400
\* 'Unsupported supplier' if raise_on_unknown, and with None otherwise.
C5_FirstMatchingExtractor == dPhase = "returned" => FirstMatchInvoked(Matches)

\* C5 witness: the predicates of three suppliers hold, and the first one's
\* extractor, which is not Hunts', was invoked
C5_Witness ==
    /\ dPhase = "returned"
    /\ Cardinality(Matches) >= 3
    /\ 1 \notin Matches
    /\ Len(dRes.called) = 1

\* C5 witness: no predicate holds and the caller asked for None
C5_WitnessNone ==
    /\ dPhase = "returned"
    /\ Matches = {}
    /\ ~dRaise
    /\ dRes.outcome = "None"

\* C6 as stated: a sender address that ends with a known supplier's domain gets
\* that supplier's extractor, whatever the text looks like.
C6_SenderAlwaysWins ==
    dPhase = "returned" =>
        \A k \in SenderSupplier : dRes.called = <<Suppliers[k]>>

NoEarlierText(k, text_matches) == \A j \in text_matches : j >= k

\* C6 as amended: a sender address that ends with a known supplier's domain gets
\* that supplier's extractor whenever the text does not look like a supplier
\* that comes earlier in the fixed order; what the text says about later
\* suppliers does not matter, and a Hunts sender always gets the Hunts extractor.
C6_SenderWinsOverLater ==
    dPhase = "returned" =>
        \A k \in SenderSupplier :
            NoEarlierText(k, TextMatches) => dRes.called = <<Suppliers[k]>>

OnlyLaterText(k, text_matches) == text_matches # {} /\ \A j \in text_matches : j > k

\* C6 witness: the sender is CLF's, the text looks like a later supplier only,
\* and the CLF extractor was invoked
C6_Witness ==
    /\ dPhase = "returned"
    /\ SenderSupplier = {3}
    /\ dRes.called = <<"parse_clf">>
    /\ OnlyLaterText(3, TextMatches)

\* the supplier B whose heuristic is the only one the text matches, if any
OnlyTextMatch(text_matches) == IF Cardinality(text_matches) = 1 THEN text_matches ELSE {}

\* C7 as stated: when the sender has the domain of supplier A and the text
\* matches only the heuristic of another supplier B, extractor B is invoked and
\* a log note is produced.
C7_ContentAlwaysWins ==
    dPhase = "returned" =>
        \A a \in SenderSupplier : \A b \in OnlyTextMatch(TextMatches) :
            b # a => (dRes.called = <<Suppliers[b]>> /\ dRes.log # <<>>)

\* C7 as amended: when the sender has the domain of supplier A and the text
\* matches only the heuristic of another supplier B, extractor B is invoked and
\* a log note is produced if B comes before A in the fixed order; otherwise
\* extractor A is invoked and no note is produced.
C7_ContentWinsIfEarlier ==
    dPhase = "returned" =>
        \A a \in SenderSupplier : \A b \in OnlyTextMatch(TextMatches) :
            b # a =>
                IF b < a
                THEN dRes.called = <<Suppliers[b]>> /\ dRes.log # <<>>
                ELSE dRes.called = <<Suppliers[a]>> /\ dRes.log = <<>>

\* C7 witness: the sender is Viridian's, the text looks like Essential only,
\* the Essential extractor was invoked and the note was logged
C7_Witness ==
    /\ dPhase = "returned"
    /\ SenderSupplier = {4}
    /\ TextMatches = {2}
    /\ dRes.called = <<"parse_essential">>
    /\ dRes.log = <<NoteEssential>>

(***************************************************************************)
(* Claims about parse_hunts (SpecHunts)                                    *)
(***************************************************************************)
\* the pages of the document: the text cut at every occurrence of the header
PagesOf(normalized) == PagesFrom(normalized, HeaderStarts(normalized), 1)

HuntsPages == PagesOf(ReplaceRsquo(hText))

\* the pages that start an invoice: those whose 'N of M' marker does not have N > 1
StartPages(pages) == {k \in 1..Len(pages) : ~IsContinuation(pages[k])}

\* the pages that start an invoice when the first page always does
StartPagesWithFirst(pages) == {k \in 1..Len(pages) : k = 1 \/ ~IsContinuation(pages[k])}

\* the j-th smallest element of a set of numbers
RECURSIVE NthOf(_, _)
NthOf(S, j) == IF j = 1 THEN MinOf(S) ELSE NthOf(S \ {MinOf(S)}, j - 1)

\* pages from .. to, joined by newlines
RECURSIVE JoinPages(_, _, _)
JoinPages(pages, from, to) ==
    IF from = to THEN pages[from]
    ELSE pages[from] \o "\n" \o JoinPages(pages, from + 1, to)

\* the last page of the invoice that starts at page k
LastPageOf(pages, starting, k) ==
    IF \E n \in starting : n > k THEN MinOf({n \in starting : n > k}) - 1 ELSE Len(pages)

InvoiceText(pages, starting, j) ==
    JoinPages(pages, NthOf(starting, j), LastPageOf(pages, starting, NthOf(starting, j)))

OneRecordPerInvoice(out, pages, starting) ==
    /\ Len(out) = Cardinality(starting)
    /\ \A j \in 1..Len(out) : out[j].section = InvoiceText(pages, starting, j)

\* C8 as stated: the text is cut into pages at every header, a page whose
\* 'N of M' marker has N > 1 is merged into the preceding invoice, every other
\* page starts an invoice, and parse_hunts returns one record per page that
\* starts an invoice, in document order.
C8_OneRecordPerStartPage ==
    (hPhase = "returned" /\ HuntsPages # <<>>) =>
        Len(hOut) = Cardinality(StartPages(HuntsPages))

\* C8 as amended: as stated, except that the first page starts an invoice
\* whatever its marker says (there is no preceding invoice to merge it into);
\* each record is read from its start page and the continuation pages after
\* it, in document order.
C8_OneRecordPerInvoice ==
    (hPhase = "returned" /\ HuntsPages # <<>>) =>
        OneRecordPerInvoice(hOut, HuntsPages, StartPagesWithFirst(HuntsPages))

\* C8 witness: four pages of which one is a continuation give three records
C8_Witness ==
    /\ hPhase = "returned"
    /\ Len(HuntsPages) = 4
    /\ Cardinality(StartPages(HuntsPages)) = 3
    /\ Len(hOut) = 3

(***************************************************************************)
(* Claims about the records of the extractors (SpecParse)                  *)
(***************************************************************************)
\* the warnings that say that amounts do not reconcile
ReconcileWarnings ==
    { "Totals do not reconcile (net + vat != total)",
      "Total GBP Incl. VAT does not reconcile",
      "Total GBP Excl. VAT does not reconcile",
      "VAT Amount does not reconcile",
      "Order total does not reconcile",
      "Reconciliation: vat_net+nonvat_net+vat_amount != total" }

Returned == {pOut.records[i] : i \in 1..Len(pOut.records)}

WarningsOf(r) == {r.warnings[j] : j \in 1..Len(r.warnings)}

Balanced(r) == Abs(r.vat_net + r.nonvat_net + r.vat_amount - r.total) <= DefaultTolerance

HasReconcileWarning(r) == \E w \in WarningsOf(r) : w.msg \in ReconcileWarnings

\* C1: in every record an extractor returns, vat_net + nonvat_net + vat_amount
\* is within 0.02 of total, or the warnings contain a "do not reconcile" warning
C1_BalancedOrWarned == \A r \in Returned : Balanced(r) \/ HasReconcileWarning(r)

Mentions(r, postcode) == \E w \in WarningsOf(r) : w.postcode = postcode

LedgerConsistent(r, postcode) ==
    /\ postcode \in LedgerKeys => r.ledger_account = LEDGER_MAP(postcode)
    /\ postcode # None /\ postcode \notin LedgerKeys =>
           r.ledger_account = NoAccount /\ Mentions(r, postcode)

\* C2: in every record an extractor returns, a deliver_to_postcode that is a key
\* of the ledger map comes with the mapped ledger_account; one that is not a key
\* comes with no ledger_account and with a warning that mentions the postcode
C2_LedgerConsistent == \A r \in Returned : LedgerConsistent(r, r.deliver_to_postcode)

(***************************************************************************)
(* Claims about the inbound endpoint (SpecInbound)                         *)
(***************************************************************************)
Posting(r) == inbound[r].posted_with # <<>>
DistinctMessages(r1, r2) == inbound[r1].message_id # NoMessageId /\ inbound[r2].message_id # NoMessageId /\ inbound[r1].message_id # inbound[r2].message_id
SameMessage(r1, r2) == r1 # r2 /\ inbound[r1].message_id # NoMessageId /\ inbound[r1].message_id = inbound[r2].message_id
SameInvoice(r1, r2) == inbound[r1].invoice # NoInvoice /\ inbound[r1].invoice = inbound[r2].invoice

\* C3: with the queue store and ledger posting enabled, of the requests
\* with distinct MessageIDs whose invoices have the same supplier_reference,
\* invoice_date and is_credit, at most one calls post_purchase_invoice /
\* post_purchase_credit_note.
C3_AtMostOnePost ==
    FIRESTORE_ENABLED /\ SAGE_ENABLED =>
        \A r1, r2 \in Requests :
            DistinctMessages(r1, r2) /\ SameInvoice(r1, r2) => ~(Posting(r1) /\ Posting(r2))

\* the request is past the message-id reservation
Reserving(r) == inbound[r].pc = "received"
\* the request got the duplicate response and neither enqueued nor posted
Rejected(r) == inbound[r].response = "Duplicate message_id" /\ inbound[r].record_ids = <<>> /\ inbound[r].posted_with = <<>> /\ inbound[r].pc = "done"
\* the request's reserve_message_id call returned instead of raising
Answered(r) == inbound[r].reserved \in {"created", "exists"}

NonNegative(r) == r.vat_net >= 0 /\ r.nonvat_net >= 0 /\ r.vat_amount >= 0 /\ r.total >= 0

\* a call that got as far as constructing the record: parse_essential raises
\* its ValueError before that
Constructing == pPhase = "returned" /\ pOut.error # "ValueError"

\* C11: every extractor clamps the four amounts at the point where it
\* constructs the record: a call that reaches the construction returns a
\* record whose four amounts are >= 0 and never an error of the constructor
C11_ClampedAtConstruction ==
    Constructing => pOut.error = "none" /\ \A r \in Returned : NonNegative(r)

\* a call on a text in which no invoice date was found or parsed
NoDateFound == pPhase = "returned" /\ ~pIn.invoice_date

HasWarning(r, msg) == \E w \in WarningsOf(r) : w.msg = msg

EpochWithWarning(r) == r.invoice_date = Epoch /\ HasWarning(r, "Invoice date not found")

\* C12: on a text without an invoice date parse_essential raises before it
\* constructs a record and every other extractor returns a record dated
\* 1970-01-01 with the warning "Invoice date not found"
C12_EpochUnlessEssential ==
    NoDateFound =>
        IF pParser = "parse_essential"
        THEN pOut.error = "ValueError" /\ pOut.records = <<>>
        ELSE pOut.error = "none" /\ \A r \in Returned : EpochWithWarning(r)

\* a call on a text in which no reference-number pattern matched
NoReferenceFound == pPhase = "returned" /\ pIn.invoice_number = ""

\* C13: on a text in which no reference-number pattern matches no extractor
\* raises, and the record it returns has the supplier_reference "UNKNOWN"
C13_UnknownReference ==
    NoReferenceFound =>
        pOut.error = "none" /\ \A r \in Returned : r.supplier_reference = "UNKNOWN"

\* a call of parse_clf or of parse_hunts' _parse_section on a credit note
CreditNote ==
    pPhase = "returned" /\ pParser \in {"parse_clf", "_parse_section"} /\ pIn.is_credit

\* a CLF text whose only amounts are those of the S and Z lines of the VAT
\* section and of the "Total GBP" line
BreakdownOnly(x) ==
    /\ IsNone(x.vat_net) /\ IsNone(x.nonvat_net) /\ IsNone(x.vat_amount)
    /\ IsNone(x.total_excl_vat) /\ IsNone(x.totals_vat_amount) /\ IsNone(x.total_incl_vat)
    /\ IsNone(x.total_gbp_incl_vat) /\ IsNone(x.vat_section_total)
    /\ ~IsNone(x.vat_net_from_breakdown) /\ ~IsNone(x.nonvat_net_from_breakdown)
    /\ ~IsNone(x.vat_amount_from_breakdown) /\ ~IsNone(x.total_gbp)

\* the amounts printed in the text, sign included: <<vat_net, nonvat_net,
\* vat_amount, total>>
RowNet(row) == IF row = NoAmount THEN 0 ELSE row[1]
RowVat(row) == IF row = NoAmount THEN 0 ELSE row[2]

PrintedAmounts(parser, x) ==
    IF parser = "parse_clf"
    THEN <<x.vat_net_from_breakdown[1], x.nonvat_net_from_breakdown[1],
           x.vat_amount_from_breakdown[1], x.total_gbp[1]>>
    ELSE <<RowNet(x.rate_row), RowNet(x.zero_row),
           RowVat(x.rate_row) + RowVat(x.zero_row), x.total_line[1]>>

\* the texts of a credit note on which the four printed amounts are known
Printed(parser, x) ==
    IF parser = "parse_clf" THEN BreakdownOnly(x)
    ELSE (x.zero_row # NoAmount \/ x.rate_row # NoAmount) /\ x.total_line # NoAmount

AbsoluteOf(r, printed) ==
    /\ r.is_credit
    /\ r.vat_net = Abs(printed[1]) /\ r.nonvat_net = Abs(printed[2])
    /\ r.vat_amount = Abs(printed[3]) /\ r.total = Abs(printed[4])

\* C14: for a credit note parse_clf and parse_hunts return a record with
\* is_credit whose four amounts are the absolute values of the amounts printed
\* in the text, whatever their sign there
C14_CreditAbsolute ==
    CreditNote /\ Printed(pParser, pIn) =>
        /\ pOut.error = "none"
        /\ \A r \in Returned : AbsoluteOf(r, PrintedAmounts(pParser, pIn))

\* a call of parse_clf on a text with Total GBP Excl. VAT, Total GBP Incl. VAT
\* and a separately extracted VAT amount
ExtractedVat(x) == IfNone(x.vat_amount, x.totals_vat_amount)

WithTotalsAndVat ==
    /\ pPhase = "returned" /\ pParser = "parse_clf"
    /\ ~IsNone(pIn.total_excl_vat) /\ ~IsNone(ClfTotalIncl(pIn))
    /\ ~IsNone(ExtractedVat(pIn))

FromTotals(x) == ClfTotalIncl(x)[1] - x.total_excl_vat[1]

Overridden(r) == HasWarning(r, "VAT amount overridden from totals")

\* C15: when the extracted VAT amount differs from incl - excl by more than
\* 0.02 the record has vat_amount = incl - excl and the warning "VAT amount
\* overridden from totals"; when they agree within 0.02 it has the extracted
\* VAT amount and not that warning
C15_VatOverriddenFromTotals ==
    WithTotalsAndVat =>
        /\ pOut.error = "none"
        /\ \A r \in Returned :
              IF Abs(ExtractedVat(pIn)[1] - FromTotals(pIn)) > DefaultTolerance
              THEN r.vat_amount = FromTotals(pIn) /\ Overridden(r)
              ELSE r.vat_amount = ExtractedVat(pIn)[1] /\ ~Overridden(r)

\* a CLF text in which no VAT net, zero-rated net or VAT amount is found: no
\* labelled amount, no totals block, no S or Z line
NoBreakdownFound(x) ==
    /\ IsNone(x.vat_net) /\ IsNone(x.nonvat_net) /\ IsNone(x.vat_amount)
    /\ IsNone(x.total_excl_vat) /\ IsNone(x.totals_vat_amount)
    /\ IsNone(x.vat_net_from_breakdown) /\ IsNone(x.nonvat_net_from_breakdown)
    /\ IsNone(x.vat_amount_from_breakdown)

\* the bare total of the text: "Total GBP" for parse_clf, "Total" for parse_tonyrefail
BareTotalOf(parser, x) == IF parser = "parse_clf" THEN x.total_gbp ELSE x.total

BareTotalFound ==
    /\ pPhase = "returned"
    /\ \/ pParser = "parse_clf" /\ NoBreakdownFound(pIn)
       \/ pParser = "parse_tonyrefail"
    /\ ~IsNone(BareTotalOf(pParser, pIn))
    /\ BareTotalOf(pParser, pIn)[1] >= 0

AllZeroRated(r, total) ==
    /\ r.vat_net = 0 /\ r.vat_amount = 0 /\ r.nonvat_net = total /\ r.total = total
    /\ ~HasReconcileWarning(r)

IsColumnHeading(line) ==
    line.text \in {TaxCodeHeading, RateHeading, NetHeading, VatHeading}

RECURSIVE UpToNextHeading(_)
UpToNextHeading(lines) ==
    IF lines = <<>> \/ IsColumnHeading(Head(lines)) THEN <<>>
    ELSE <<Head(lines)>> \o UpToNextHeading(Tail(lines))

\* the values of one column: the lines after its heading up to the next
\* column heading
ColumnUnder(section, label) ==
    IF LabelIndexes(section, label) = {} THEN <<>>
    ELSE UpToNextHeading(SubSeq(section, FirstIndex(LabelIndexes(section, label)) + 1,
                                Len(section)))

\* the three sums of the rows rebuilt by index from the four columns
ByRows(section) ==
    SectionSums(ColumnUnder(section, TaxCodeHeading), ColumnUnder(section, RateHeading),
                ColumnUnder(section, NetHeading), ColumnUnder(section, VatHeading))

ColumnMajorAnalysis ==
    pPhase = "returned" /\ pParser = "parse_viridian" /\ pIn.vat_analysis # <<>>

SumsOf(r) == [vat_net |-> <<r.vat_net>>, nonvat_net |-> <<r.nonvat_net>>,
              vat_amount |-> <<r.vat_amount>>]

\* C17: for a column-major VAT Analysis section parse_viridian ends each
\* column's value list at the next column heading and rebuilds the rows by
\* index: vat_net is the sum of the nets of the rows with rate > 0 or code
\* T1, nonvat_net the sum of the other nets, vat_amount the sum of the VAT
\* column, and no value of the VAT column is counted into a net
C17_ColumnsEndAtNextHeading ==
    ColumnMajorAnalysis =>
        /\ pOut.error = "none"
        /\ \A r \in Returned : SumsOf(r) = ByRows(Tail(pIn.vat_analysis))

CanonicalUpper(pc) == Canonical(pc) /\ pc = Upper(pc)

WithPostcode == {r \in Returned : r.deliver_to_postcode # None}

\* C18: in every record an extractor returns, deliver_to_postcode, when
\* present, is canonical: upper case, exactly one space, exactly three
\* characters after the space and no other whitespace, whatever whitespace
\* separated the outward and the inward code in the text
C18_CanonicalPostcode ==
    \A r \in WithPostcode : CanonicalUpper(r.deliver_to_postcode)

BlockExtractors == {"parse_clf", "parse_biocare", "parse_viridian", "parse_natures_plus"}

FromBlockExtractor == pPhase = "returned" /\ pParser \in BlockExtractors

\* the postcodes the block contains, without their separator
BlockCandidates(found) == {Upper(found[k].g1 \o found[k].g2) : k \in 1..Len(found)}

TakenFromBlock(pc, block) ==
    pc # None /\ RemoveWhitespace(pc) \in BlockCandidates(POSTCODE_RE_findall(block))

BlockFirst(r, d) ==
    d.labelled /\ HasPostcodeShape(d.block) => TakenFromBlock(r.deliver_to_postcode, d.block)

AbsentOnlyWithoutPostcode(r, d) ==
    r.deliver_to_postcode = None => ~HasPostcodeShape(WholeText(d))

\* C19: parse_clf, parse_biocare, parse_viridian and parse_natures_plus take
\* the postcode from the labelled delivery block when the block exists and
\* contains one, and otherwise scan the whole document, so that
\* deliver_to_postcode is absent only when the whole text contains no
\* postcode-shaped substring
C19_BlockThenWholeText ==
    FromBlockExtractor =>
        \A r \in Returned :
            BlockFirst(r, pIn.document) /\ AbsentOnlyWithoutPostcode(r, pIn.document)

(***************************************************************************)
(* Claims about the ledger payload (SpecSage)                              *)
(***************************************************************************)
Accepted == sPhase = "returned" /\ sOut.status = "posted"

LinesOf(payload) == {payload.invoice_lines[k] : k \in 1..Len(payload.invoice_lines)}

RECURSIVE SumOfNet(_)
SumOfNet(lines) == IF lines = <<>> THEN 0 ELSE Head(lines).net_amount + SumOfNet(Tail(lines))

RECURSIVE SumOfTax(_)
SumOfTax(lines) == IF lines = <<>> THEN 0 ELSE Head(lines).tax_amount + SumOfTax(Tail(lines))

RECURSIVE SumOfTotal(_)
SumOfTotal(lines) ==
    IF lines = <<>> THEN 0 ELSE Head(lines).total_amount + SumOfTotal(Tail(lines))

\* a standard-rate line with vat_net and vat_amount when vat_net > 0, a
\* zero-rate line with nonvat_net and no tax when nonvat_net > 0, no other line
LinePerTreatment(payload, invoice) ==
    /\ invoice.vat_net > 0 <=>
          \E l \in LinesOf(payload) :
              /\ l.tax_rate_id = "GB_STANDARD" /\ l.net_amount = invoice.vat_net
              /\ l.tax_amount = invoice.vat_amount
    /\ invoice.nonvat_net > 0 <=>
          \E l \in LinesOf(payload) :
              /\ l.tax_rate_id = "GB_ZERO" /\ l.net_amount = invoice.nonvat_net
              /\ l.tax_amount = 0
    /\ Len(payload.invoice_lines)
          = (IF invoice.vat_net > 0 THEN 1 ELSE 0) + (IF invoice.nonvat_net > 0 THEN 1 ELSE 0)

HeaderSums(payload) ==
    /\ payload.net_amount = SumOfNet(payload.invoice_lines)
    /\ payload.tax_amount = SumOfTax(payload.invoice_lines)
    /\ payload.total_amount = SumOfTotal(payload.invoice_lines)

\* C20: the payload posted for a record with vat_net, nonvat_net and
\* vat_amount >= 0 has one line for each VAT treatment present, and its
\* header net_amount, tax_amount and total_amount are each the sum of the
\* corresponding amounts of its lines
C20_HeaderIsSumOfLines ==
    Accepted => LinePerTreatment(sOut.payload[1], sInvoice) /\ HeaderSums(sOut.payload[1])

(***************************************************************************)
(* Claims about the extractors and the clock (SpecClock)                   *)
(***************************************************************************)
SameCall(a, b) == a.parser = b.parser /\ a.input = b.input

\* C21: every extractor is a function of its input text alone: two calls of
\* one extractor on the same text, whatever happened between them, returned
\* equal output, and no call changed a module-level table
C21_FunctionOfTextAlone ==
    /\ \A a \in calls : \A b \in calls : SameCall(a, b) => a.output = b.output
    /\ (calls # {} => tables = ModuleTables)

(***************************************************************************)
(* Claims about parse_money (SpecMoney)                                    *)
(***************************************************************************)
HasDigit(s) == \E i \in 1..Len(s) : IsDigit(s[i])

\* the text with currency signs and whitespace removed
RECURSIVE WithoutSignsAndSpace(_)
WithoutSignsAndSpace(s) ==
    IF s = <<>> THEN <<>>
    ELSE IF Head(s) \in {POUND, "$", EURO} \/ IsSpace(Head(s)) THEN WithoutSignsAndSpace(Tail(s))
    ELSE <<Head(s)>> \o WithoutSignsAndSpace(Tail(s))

WithoutSign(s) == IF s # <<>> /\ Head(s) = "-" THEN Tail(s) ELSE s

WholePart(s) == IF Len(s) >= 3 /\ s[Len(s) - 2] = "." THEN SubSeq(s, 1, Len(s) - 3) ELSE s

FractionOk(s) == Len(s) >= 3 /\ s[Len(s) - 2] = "." => IsDigit(s[Len(s) - 1]) /\ IsDigit(s[Len(s)])

PlainDigits(w) == w # <<>> /\ \A i \in 1..Len(w) : IsDigit(w[i])

\* 1,466 or 12,345,678: one to three digits, then groups of a comma and three digits
Grouped(w) ==
    /\ \E n \in 1..3 : n <= Len(w) /\ (Len(w) - n) % 4 = 0 /\ (\A i \in 1..n : IsDigit(w[i]))
                     /\ \A i \in (n + 1)..Len(w) : IF (i - n) % 4 = 1 THEN w[i] = "," ELSE IsDigit(w[i])

\* a numeral: an optional sign, digits with or without thousands separators,
\* and optionally a point and two decimals
IsNumeral(s) == FractionOk(WithoutSign(s)) /\ (PlainDigits(WholePart(WithoutSign(s))) \/ Grouped(WholePart(WithoutSign(s))))

\* the value of a numeral in pence, read digit by digit
RECURSIVE OnlyDigits(_)
OnlyDigits(s) ==
    IF s = <<>> THEN <<>>
    ELSE IF IsDigit(Head(s)) THEN <<Head(s)>> \o OnlyDigits(Tail(s))
    ELSE OnlyDigits(Tail(s))

Magnitude(s) ==
    IF Len(s) >= 3 /\ s[Len(s) - 2] = "." THEN DigitsToInt(OnlyDigits(s)) ELSE 100 * DigitsToInt(OnlyDigits(s))

NumeralPence(s) == IF Head(s) = "-" THEN 0 - Magnitude(s) ELSE Magnitude(s)

\* C22: parse_money returns absent for a text without a numeral and otherwise
\* the full value of the numeral that is left when currency signs and
\* whitespace are removed, with or without thousands separators
C22_FullValueOfNumeral ==
    mPhase = "returned" =>
        /\ (~HasDigit(mText) => ~mOut.matched)
        /\ (IsNumeral(WithoutSignsAndSpace(mText)) =>
                mOut.matched /\ mOut.pence = NumeralPence(WithoutSignsAndSpace(mText)))

(***************************************************************************)
(* Claims about the warnings of parse_clf (SpecParse)                      *)
(***************************************************************************)
TheTwoNotFound == {"VAT net amount not found", "VAT amount not found"}

NotOneOfTheTwo(w) == w.msg \notin TheTwoNotFound

ClfReturned == pPhase = "returned" /\ pParser = "parse_clf" /\ pOut.error = "none"

\* the warnings parse_clf appended: no statement appends a warning on account
\* of is_credit, and a text that is no credit has none removed
ClfAppended == parse_clf([pIn EXCEPT !.is_credit = FALSE]).records[1].warnings

OnlyZeroRatedCredit(r) == r.is_credit /\ r.vat_net = 0 /\ r.vat_amount = 0 /\ r.nonvat_net > 0

WarningsAsAppended(r, appended) ==
    IF OnlyZeroRatedCredit(r) THEN r.warnings = SelectSeq(appended, NotOneOfTheTwo)
    ELSE r.warnings = appended

\* C23: parse_clf removes the warnings "VAT net amount not found" and "VAT
\* amount not found" exactly when the record is a credit with vat_net = 0,
\* vat_amount = 0 and nonvat_net > 0; it removes no other warning, and none at
\* all in every other case
C23_NotFoundRemovedOnZeroRatedCredit ==
    ClfReturned => WarningsAsAppended(pOut.records[1], ClfAppended)

C23_Witness ==
    /\ ClfReturned
    /\ OnlyZeroRatedCredit(pOut.records[1])
    /\ Len(pOut.records[1].warnings) > 0
    /\ Len(pOut.records[1].warnings) < Len(ClfAppended)

(***************************************************************************)
(* Claims about the rate lines of the Hunts VAT analysis (SpecAnalysis)    *)
(***************************************************************************)
ZeroPercentages == {"0%", "0.0%", "0.00%"}

IsZeroRate(rate_str) == StrLower(rate_str) = "zero" \/ rate_str \in ZeroPercentages

\* the net value printed on a line, 0 when no numeral is printed
NetValue(line) == IF IsNumeral(line.net) THEN NumeralPence(line.net) ELSE 0

RECURSIVE SumOfNets(_, _)
SumOfNets(lines, zero) ==
    IF lines = <<>> THEN 0
    ELSE (IF IsZeroRate(Head(lines).rate_str) = zero THEN NetValue(Head(lines)) ELSE 0)
         + SumOfNets(Tail(lines), zero)

\* C24: every numbered line of the VAT analysis is classified by its rate: a
\* line with rate ZERO or a zero percentage adds its net value to nonvat_net,
\* a line with a non-zero percentage adds it to vat_net
C24_ClassifiedByRate ==
    aPhase = "returned" =>
        /\ aOut.nonvat_net = SumOfNets(aLines, TRUE)
        /\ aOut.vat_net = SumOfNets(aLines, FALSE)

(***************************************************************************)
(* Claims about the due date (SpecClock)                                   *)
(***************************************************************************)
NoDueLabel(c) == c.input.due_date = NoDateText

DueAfterTerms(c) == c.output.due_date = PlusDays(c.output.invoice_date, c.input.terms)

ViridianDueAsClaimed(c) ==
    IF c.input.terms # NoTerms THEN DueAfterTerms(c)
    ELSE c.output.due_date = PlusDays(c.output.invoice_date, 30)

ClfDueAsClaimed(c) ==
    IF c.input.terms # NoTerms THEN DueAfterTerms(c)
    ELSE c.output.due_date = NoDay

\* C25: without a due-date label the due date is the invoice date plus the N
\* days of the payment terms, for every N >= 0, N = 0 included; only without
\* payment terms does parse_viridian add 30 days and parse_clf leave the due
\* date absent
C25_DueDateFromTerms ==
    \A c \in calls :
        /\ (c.parser = "parse_viridian" /\ NoDueLabel(c) => ViridianDueAsClaimed(c))
        /\ (c.parser = "parse_clf" /\ NoDueLabel(c) => ClfDueAsClaimed(c))

(***************************************************************************)
(* Claims about the VAT-rate split of parse_natures_aid (SpecParse)        *)
(***************************************************************************)
SplitFound(x) == ~IsNone(x.split_vat_net) /\ ~IsNone(x.split_nonvat_net)

SplitSum(x) == x.split_vat_net[1] + x.split_nonvat_net[1]

\* the split of the lines does not add up to the "Net Total" of the text
SplitDisagrees ==
    /\ pPhase = "returned"
    /\ pParser = "parse_natures_aid"
    /\ SplitFound(pIn)
    /\ ~IsNone(pIn.vat_net)
    /\ SplitSum(pIn) # pIn.vat_net[1]

WithinOne(a, b, unit) == a - b <= unit /\ b - a <= unit

\* vat_net : nonvat_net is the ratio of the split sums, to the penny
InSplitRatio(r, x) == WithinOne(r.vat_net * SplitSum(x), x.vat_net[1] * x.split_vat_net[1], SplitSum(x))

\* C26: when the split of the lines does not add up to the Net Total, the
\* returned vat_net and nonvat_net are the Net Total divided in the ratio of
\* the split: they add up to the Net Total and keep the ratio
C26_NetTotalInSplitRatio ==
    SplitDisagrees =>
        /\ pOut.error = "none"
        /\ \A r \in Returned : r.vat_net + r.nonvat_net = pIn.vat_net[1] /\ InSplitRatio(r, pIn)

(***************************************************************************)
(* Claims about the ledger lookup of the posting loops (SpecInbound)       *)
(***************************************************************************)
\* request r makes its ledger lookup in this step
LooksUp(r) == inbound[r].pc \in {"locked", "matched"} /\ inbound'[r].pc # inbound[r].pc

\* what the lookup of request r leads to, by its answer: a skip for the
\* ledger's document, a skip for the lock or the local match, or no skip
LookupDecides(r) ==
    IF inbound'[r].sage_exists = "True" THEN inbound'[r].sage_result = Skipped("duplicate_sage") /\ inbound'[r].pc = "update"
    ELSE IF inbound'[r].sage_exists = "None" THEN inbound'[r].sage_result = Skipped(IF inbound[r].pc = "locked" THEN "reference_locked" ELSE "duplicate_local") /\ inbound'[r].pc = "update"
    ELSE inbound'[r].sage_result = NoSageResult /\ inbound'[r].pc \in {"duplicate", "post"}

\* C27: when the reference lock cannot be acquired or a local posted match
\* exists, the invoice is skipped with duplicate_sage if the ledger lookup
\* reports that it exists, skipped with reference_locked (lock) or
\* duplicate_local (local match) if the lookup is unavailable or raised,
\* and not skipped but sent on to be posted if the lookup reports that it
\* does not exist
C27_LookupDecidesSkipOrPost == [][\A r \in Requests : LooksUp(r) => LookupDecides(r)]_vars

(***************************************************************************)
(* Claims about the lifetime of a MessageID reservation (SpecInbound)      *)
(***************************************************************************)
\* request r passes the message-id reservation in this step
PassesReservation(r) == inbound[r].pc = "received" /\ inbound'[r].pc # "received"

\* request r leaves the reservation with the duplicate response and nothing
\* processed
LeavesRejected(r) == inbound'[r].response = "Duplicate message_id" /\ inbound'[r].pc = "done" /\ inbound'[r].record_ids = <<>> /\ inbound'[r].posted_with = <<>>

\* the reservation call of request r returns in this step (True or False)
ReservationReturns(r) == inbound'[r].reserved \in {"created", "exists"}

\* the message documents are kept
NeverReleased == processed_messages \subseteq processed_messages'

\* request r failed after its reservation
FailedAfterReserving(r) == inbound[r].reserved = "created" /\ (inbound[r].response = "Unsupported supplier" \/ inbound[r].sage_result = Failed)

ThirtyDaysAfter(date) == IF date = "2026-12-05" THEN "2027-01-04" ELSE IF date = "2024-01-31" THEN "2024-03-01" ELSE ""

\* the call with another due date on the record
WithDueDate(due_date) ==
    IF sInvoice.is_credit THEN post_purchase_credit_note([sInvoice EXCEPT !.due_date = due_date], sEnv)
    ELSE post_purchase_invoice([sInvoice EXCEPT !.due_date = due_date], sEnv)

\* C28: the due date sent to the ledger by post_purchase_invoice and
\* post_purchase_credit_note is always invoice_date + 30 days; the record's
\* own due_date never influences the posted payload
C28_DueDateThirtyDaysAfter ==
    sPhase = "returned" /\ sOut.payload # <<>> =>
        /\ sOut.payload[1].due_date = ThirtyDaysAfter(sOut.payload[1].date)
        /\ sOut.payload[1].due_date # ""
        /\ \A due_date \in PostedDueDates : WithDueDate(due_date) = sOut

C28_Witness ==
    /\ sPhase = "returned" /\ sOut.payload # <<>>
    /\ sInvoice.due_date = <<2026, 12, 12>> /\ sInvoice.invoice_date = <<2026, 12, 5>>
    /\ sOut.payload[1].due_date = "2027-01-04"

(***************************************************************************)
(* Claims about the rate limit (SpecRate)                                  *)
(***************************************************************************)
\* the daily limit L of the claim
DailyLimit == LimitOf(RATE_LIMIT_PER_DAY)

\* the call passed the rate limit: _enforce_rate_limit returned
Passed(r) == rCalls[r].pc = "returned"

\* the sender and UTC day of a call that reached the store, from its key
SameSenderAndDay(r1, r2) == rCalls[r1].key # "" /\ rCalls[r1].key = rCalls[r2].key

\* the calls that have written to the document of a key
Writers(key) == {r \in Callers : rCalls[r].wrote /\ rCalls[r].key = key}

\* C30: with the queue store enabled and a daily limit L > 0, every call
\* of _enforce_rate_limit that gets an answer has added one to the counter
\* of its (sender, UTC day) key, rejected calls included, and passes only
\* if the value it then reads is <= L; so at most L calls per sender and
\* UTC day pass, in any interleaving
C30_AtMostLimitPass ==
    FIRESTORE_ENABLED /\ DailyLimit > 0 =>
        /\ \A r \in Callers : rCalls[r].pc \in {"get", "returned", "rejected"} => rCalls[r].wrote
        /\ \A key \in RateKeys : rate_limits[key] = Cardinality(Writers(key))
        /\ \A r \in Callers : Passed(r) => rCalls[r].count >= 1 /\ rCalls[r].count <= DailyLimit
        /\ \A r \in Callers : rCalls[r].pc = "rejected" => rCalls[r].count > DailyLimit
        /\ \A r \in Callers : Cardinality({q \in Callers : Passed(q) /\ SameSenderAndDay(r, q)}) <= DailyLimit

C30_Witness ==
    /\ FIRESTORE_ENABLED /\ DailyLimit = 1
    /\ \E r1, r2, r3 \in Callers :
        /\ rCalls[r1].sender_email = "Ann@x.com" /\ rCalls[r2].sender_email = "ann@x.com" /\ rCalls[r3].sender_email = "ann@x.com"
        /\ SameSenderAndDay(r1, r2) /\ Passed(r1) /\ rCalls[r2].pc = "rejected" /\ rCalls[r2].count = 2
        /\ ~SameSenderAndDay(r1, r3) /\ Passed(r3)

====
